---- MODULE Spec2Model ----
(***************************************************************************)
(* Model of the stack0 Go SDK: the HTTP transport (client.HTTPClient) and  *)
(* the bounded polling helpers built on it (screenshots.CaptureAndWait,    *)
(* screenshots.BatchAndWait, extraction.ExtractAndWait,                    *)
(* extraction.BatchAndWait).                                               *)
(*                                                                         *)
(* Time is discrete (one tick = one second, the unit of the default poll   *)
(* interval).  Time passes only while a call is blocked: inside an HTTP    *)
(* round trip or inside the select of the poll wait.  The statements       *)
(* between two blocking points run in zero time.                           *)
(***************************************************************************)
EXTENDS Integers, Sequences, FiniteSets, TLC

VARIABLES call, now, args, out, client

vars == <<call, now, args, out, client>>

----------------------------------------------------------------------------
(* Bounds of the model *)

MaxPollOpt == 2        \* largest PollInterval option passed by a caller
MaxTimeoutOpt == 4     \* largest Timeout option passed by a caller
MaxStartTime == 1      \* longest round trip of the start call, in ticks
MaxGetTime == 2        \* most time one call spends inside its get calls

IntBits == 14          \* bits of an int in the width computation (Go: 32 or 64)
MaxSetOptions == 2     \* most transform options set together (besides all of them)
MaxCalls == 2          \* call slots (goroutines using the same client)

Calls == 1..MaxCalls

----------------------------------------------------------------------------
(* Program constants *)

DefaultPollSingle == 1       \* 1 * time.Second
DefaultTimeoutSingle == 60   \* 60 * time.Second
DefaultPollBatch == 2        \* 2 * time.Second
DefaultTimeoutBatch == 300   \* 300 * time.Second

StatusPending == "pending"
StatusProcessing == "processing"
StatusCompleted == "completed"
StatusFailed == "failed"
StatusCancelled == "cancelled"

SingleHelpers == {"CaptureAndWait", "ExtractAndWait"}
BatchHelpers == {"ScreenshotsBatchAndWait", "ExtractionBatchAndWait"}
Helpers == SingleHelpers \cup BatchHelpers

----------------------------------------------------------------------------
(* Error values.  A Go error is modelled by its dynamic type (kind), its   *)
(* message, the error it wraps (cause) and, for *types.APIError, the       *)
(* status code and the machine code.                                       *)

MkErr(k, m, c, s, mc) == [kind |-> k, msg |-> m, cause |-> c, status |-> s, code |-> mc]

NoErr == MkErr("nil", "", "", 0, "")

\* context.Canceled, the value of ctx.Err() after cancel()
ContextCanceled == MkErr("context", "context canceled", "", 0, "")

\* errors.New(msg)
ErrorsNew(m) == MkErr("errorString", m, "", 0, "")

\* types.NewTimeoutError(msg)
NewTimeoutError(m) == MkErr("TimeoutError", m, "", 0, "")

\* fmt.Errorf(prefix + ": %w", e)
Errorf(prefix, e) == MkErr("wrapError", prefix, e.msg, 0, "")

\* &types.APIError{StatusCode, Code, Message}
APIError(s, mc, m) == MkErr("APIError", m, "", s, mc)

\* error of json.Unmarshal
JSONError == MkErr("jsonError", "invalid character", "", 0, "")

----------------------------------------------------------------------------
(* Job records.  A pointer is a sequence: <<>> is nil, <<v>> points to v.  *)

JobIDs == {"ss-123"}

MkRec(id, st, e) == [ID |-> id, Status |-> st, Error |-> e]

\* the zero value of Screenshot / ExtractionResult / Batch*Job
ZeroRec == MkRec("", "", <<>>)

ErrorTexts == {<<>>, <<"">>, <<"Page load failed">>}

\* the records a server may send for job id
ServerRecords(id) ==
    {MkRec(id, st, <<>>) : st \in {StatusPending, StatusProcessing, StatusCompleted, StatusCancelled}}
        \cup {MkRec(id, StatusFailed, e) : e \in ErrorTexts}

----------------------------------------------------------------------------
(* Transport: client.HTTPClient.  A round trip is what httpClient.Do and   *)
(* io.ReadAll produce: an error, or a status code and a body.              *)

MkBody(k, r, m, mc) == [kind |-> k, rec |-> r, message |-> m, code |-> mc]

EmptyBody == MkBody("empty", ZeroRec, "", "")
InvalidBody(raw) == MkBody("invalid", ZeroRec, raw, "")
ObjectBody(r) == MkBody("object", r, "", "")
ErrorBody(m, mc) == MkBody("object", ZeroRec, m, mc)

MkRoundTrip(k, e, sc, b) == [kind |-> k, err |-> e, code |-> sc, body |-> b]

DoFailed(e) == MkRoundTrip("doErr", e, 0, EmptyBody)
\* the response arrived with status sc and reading its body failed with e
ReadFailed(sc, e) == MkRoundTrip("readErr", e, sc, EmptyBody)
Response(sc, b) == MkRoundTrip("resp", NoErr, sc, b)

ConnRefused == MkErr("netError", "connection refused", "", 0, "")

\* *url.Error returned by httpClient.Do when ctx is done
URLErrorCanceled == MkErr("urlError", "context canceled", "context canceled", 0, "")

\* client.New: the fields of an HTTPClient
New(apiKey, baseURL) == [apiKey |-> apiKey, baseURL |-> baseURL]

\* httptest server.URL
ServerURL == "http://127.0.0.1:8080"

\* a base URL that url.Parse rejects (blank in the host name)
InvalidBaseURL == "http://bad host"

\* json.Marshal of a value encoding/json does not support
JSONUnsupported == MkErr("UnsupportedTypeError", "json: unsupported type", "", 0, "")

URLParseError == MkErr("urlError", "invalid character in host name", "", 0, "")

\* the body argument of a transport call: nil, a value that marshals, or
\* one that does not
Bodies == {"nil", "json", "unsupported"}

\* variant: the Authorization header is set together with Content-Type
BuildRequest_AuthWithBody(cl, method, path, body) ==
    IF body = "unsupported"
    THEN [req |-> <<>>, err |-> Errorf("failed to marshal request body", JSONUnsupported)]
    ELSE IF cl.baseURL = InvalidBaseURL
    THEN [req |-> <<>>, err |-> Errorf("failed to create request", URLParseError)]
    ELSE [req |-> <<[method |-> method, url |-> <<cl.baseURL, path>>,
                     Authorization |-> IF body # "nil" THEN <<"Bearer ", cl.apiKey>> ELSE <<>>,
                     ContentType |-> IF body # "nil" THEN <<"application/json">> ELSE <<>>,
                     hasBody |-> body # "nil"]>>,
          err |-> NoErr]

\* the first half of doRequest: marshal the body, build the request and set
\* its headers.  Strings built by + are sequences of their parts; a header
\* that is not set is <<>>.
BuildRequest(cl, method, path, body) ==
    IF body = "unsupported"
    THEN [req |-> <<>>, err |-> Errorf("failed to marshal request body", JSONUnsupported)]
    ELSE IF cl.baseURL = InvalidBaseURL
    THEN [req |-> <<>>, err |-> Errorf("failed to create request", URLParseError)]
    ELSE [req |-> <<[method |-> method, url |-> <<cl.baseURL, path>>,
                     Authorization |-> <<"Bearer ", cl.apiKey>>,
                     ContentType |-> IF body # "nil" THEN <<"application/json">> ELSE <<>>,
                     hasBody |-> body # "nil"]>>,
          err |-> NoErr]

\* the path of the start call of helper h
StartPath(h) ==
    IF h = "CaptureAndWait" THEN <<"/webdata/screenshots">>
    ELSE IF h = "ExtractAndWait" THEN <<"/webdata/extractions">>
    ELSE IF h = "ScreenshotsBatchAndWait" THEN <<"/webdata/batch/screenshots">>
    ELSE <<"/webdata/batch/extractions">>

\* the Environment and ProjectID of a start request: nil pointers
NoScope == [Environment |-> <<>>, ProjectID |-> <<>>]

\* the Environment and ProjectID a caller may put in a start request
ScopeChoices ==
    {[Environment |-> e, ProjectID |-> p] :
        e \in {<<>>, <<"production">>}, p \in {<<>>, <<"proj-1">>}}

\* params.Encode() of the get methods: environment and projectId, each set
\* when its pointer is not nil, written in sorted order; the values used
\* here need no escaping
GetQuery(scope) ==
    (IF scope.Environment # <<>> THEN <<"environment", "=", scope.Environment[1]>> ELSE <<>>)
        \o (IF scope.Environment # <<>> /\ scope.ProjectID # <<>> THEN <<"&">> ELSE <<>>)
        \o (IF scope.ProjectID # <<>> THEN <<"projectId", "=", scope.ProjectID[1]>> ELSE <<>>)

\* variant: the get call is made without the scoping of the start request
GetPath_Unscoped(h, id, scope) ==
    IF h = "CaptureAndWait" THEN <<"/webdata/screenshots/", id>>
    ELSE IF h = "ExtractAndWait" THEN <<"/webdata/extractions/", id>>
    ELSE <<"/webdata/batch/", id>>

\* the path of the get call of helper h for job id with the scoping scope:
\* the query is appended when a parameter was set
GetPath(h, id, scope) ==
    (IF h = "CaptureAndWait" THEN <<"/webdata/screenshots/", id>>
     ELSE IF h = "ExtractAndWait" THEN <<"/webdata/extractions/", id>>
     ELSE <<"/webdata/batch/", id>>)
        \o (IF GetQuery(scope) # <<>> THEN <<"?">> \o GetQuery(scope) ELSE <<>>)

\* json.Unmarshal(respBody, &errResp) of doRequest
DecodeErrorResponse(b) ==
    IF b.kind = "object" THEN [message |-> b.message, code |-> b.code]
    ELSE IF b.kind = "invalid" THEN [message |-> b.message, code |-> ""]
    ELSE [message |-> "", code |-> ""]

\* variant: a status of exactly 400 is not an error
doRequest_Above400(rt) ==
    IF rt.kind = "doErr" THEN [body |-> EmptyBody, err |-> Errorf("request failed", rt.err)]
    ELSE IF rt.kind = "readErr" THEN [body |-> EmptyBody, err |-> Errorf("failed to read response body", rt.err)]
    ELSE IF rt.code > 400
         THEN LET errResp == DecodeErrorResponse(rt.body)
              IN [body |-> EmptyBody, err |-> APIError(rt.code, errResp.code, errResp.message)]
         ELSE [body |-> rt.body, err |-> NoErr]

\* variant: a failed httpClient.Do is reported as an APIError
doRequest_NetworkAsAPIError(rt) ==
    IF rt.kind = "doErr" THEN [body |-> EmptyBody, err |-> APIError(0, "", rt.err.msg)]
    ELSE IF rt.kind = "readErr" THEN [body |-> EmptyBody, err |-> Errorf("failed to read response body", rt.err)]
    ELSE IF rt.code >= 400
         THEN LET errResp == DecodeErrorResponse(rt.body)
              IN [body |-> EmptyBody, err |-> APIError(rt.code, errResp.code, errResp.message)]
         ELSE [body |-> rt.body, err |-> NoErr]

\* the second half of doRequest: httpClient.Do, io.ReadAll, the status test
doRequest(rt) ==
    IF rt.kind = "doErr" THEN [body |-> EmptyBody, err |-> Errorf("request failed", rt.err)]
    ELSE IF rt.kind = "readErr" THEN [body |-> EmptyBody, err |-> Errorf("failed to read response body", rt.err)]
    ELSE IF rt.code >= 400
         THEN LET errResp == DecodeErrorResponse(rt.body)
              IN [body |-> EmptyBody, err |-> APIError(rt.code, errResp.code, errResp.message)]
         ELSE [body |-> rt.body, err |-> NoErr]

\* HTTPClient.Get / HTTPClient.Post: doRequest, then json.Unmarshal into result
HTTPDecode(rt) ==
    LET r == doRequest(rt)
    IN IF r.err # NoErr THEN [rec |-> ZeroRec, err |-> r.err]
       ELSE IF r.body.kind = "empty" THEN [rec |-> ZeroRec, err |-> NoErr]
       ELSE IF r.body.kind = "invalid" THEN [rec |-> ZeroRec, err |-> JSONError]
       ELSE [rec |-> r.body.rec, err |-> NoErr]

\* Client.Capture / Extract / Batch and Client.Get / GetBatchJob:
\* (nil, err) on error, (&resp, nil) otherwise
ClientCall(rt) ==
    LET r == HTTPDecode(rt)
    IN IF r.err # NoErr THEN [rec |-> <<>>, err |-> r.err]
       ELSE [rec |-> <<r.rec>>, err |-> NoErr]

\* what the network can answer to a request for job id
ServerRoundTrips(id) ==
    {Response(200, ObjectBody(r)) : r \in ServerRecords(id)}
        \cup {Response(200, EmptyBody), Response(200, InvalidBody("<html>")),
              Response(400, ErrorBody("Invalid request", "INVALID_REQUEST")),
              Response(500, InvalidBody("Internal Server Error")),
              DoFailed(ConnRefused)}

\* the outcomes of a round trip given the state of its context: a context
\* already done when the request is issued always fails it, one cancelled
\* in flight races with the response
RoundTrips(id, doneAtIssue, doneNow) ==
    IF doneAtIssue THEN {DoFailed(URLErrorCanceled)}
    ELSE IF doneNow THEN ServerRoundTrips(id) \cup {DoFailed(URLErrorCanceled)}
    ELSE ServerRoundTrips(id)

----------------------------------------------------------------------------
(* The wait helpers *)

\* *CaptureAndWaitOptions / *ExtractAndWaitOptions a caller may pass
OptsChoices ==
    {<<>>} \cup {<<[PollInterval |-> p, Timeout |-> t]>> :
                    p \in (-1)..MaxPollOpt, t \in (-1)..MaxTimeoutOpt}

\* the options of a caller that sets a timeout of its own
TimedOpts == {o \in OptsChoices : o # <<>> /\ o[1].Timeout > 0}

DefaultPoll(h) == IF h \in SingleHelpers THEN DefaultPollSingle ELSE DefaultPollBatch

DefaultTimeout(h) == IF h \in SingleHelpers THEN DefaultTimeoutSingle ELSE DefaultTimeoutBatch

\* variant: a field of zero replaces the default as well
ResolveOptions_ZeroOverrides(h, opts) ==
    [pollInterval |-> IF opts # <<>> /\ opts[1].PollInterval >= 0
                      THEN opts[1].PollInterval ELSE DefaultPoll(h),
     timeout |-> IF opts # <<>> /\ opts[1].Timeout >= 0
                 THEN opts[1].Timeout ELSE DefaultTimeout(h)]

\* the first lines of each helper: defaults, overridden by positive options
ResolveOptions(h, opts) ==
    [pollInterval |-> IF opts # <<>> /\ opts[1].PollInterval > 0
                      THEN opts[1].PollInterval ELSE DefaultPoll(h),
     timeout |-> IF opts # <<>> /\ opts[1].Timeout > 0
                 THEN opts[1].Timeout ELSE DefaultTimeout(h)]

FailedMessage(h) == IF h = "CaptureAndWait" THEN "Screenshot failed" ELSE "Extraction failed"

TimeoutMessage(h) ==
    IF h = "CaptureAndWait" THEN "Screenshot timed out"
    ELSE IF h = "ExtractAndWait" THEN "Extraction timed out"
    ELSE "Batch job timed out"

\* a helper's step is either a return of (result, err) or a move to next
Return(res, e) == [next |-> "done", result |-> res, err |-> e]
Goto(p) == [next |-> p, result |-> <<>>, err |-> NoErr]

\* variant: the error of the start call is dropped and the loop is entered
HandleStart_IgnoreError(r) == Goto("loop")

\* resp, err := c.Capture(ctx, req); if err != nil { return nil, err }
HandleStart(r) ==
    IF r.err # NoErr THEN Return(<<>>, r.err) ELSE Goto("loop")

\* variant: the loop gives up one tick early
LoopCond_OffByOne(elapsed, timeout) == elapsed + 1 < timeout

\* variant: the loop runs two ticks past the timeout
LoopCond_Slack(elapsed, timeout) == elapsed < timeout + 2

\* for time.Since(startTime) < timeout
LoopCond(elapsed, timeout) == elapsed < timeout

\* variant: at the timeout one last get call is made before giving up
LoopStep_FinalGet(h, elapsed, timeout) ==
    IF LoopCond(elapsed, timeout) \/ elapsed = timeout THEN Goto("get")
    ELSE Return(<<>>, NewTimeoutError(TimeoutMessage(h)))

\* variant: nothing follows the loop, the test is repeated for ever
LoopStep_Spin(h, elapsed, timeout) ==
    IF LoopCond(elapsed, timeout) THEN Goto("get") ELSE Goto("loop")

\* the loop test: another get call, or the timeout return after the loop
LoopStep(h, elapsed, timeout) ==
    IF LoopCond(elapsed, timeout) THEN Goto("get")
    ELSE Return(<<>>, NewTimeoutError(TimeoutMessage(h)))

\* variant: only the failed status ends the loop
HandleSingleStatus_CompletedPending(h, rec) ==
    IF rec.Status = StatusFailed
    THEN Return(<<>>, ErrorsNew(IF rec.Error # <<>> THEN rec.Error[1] ELSE FailedMessage(h)))
    ELSE Goto("wait")

\* variant: the job's error text is ignored
HandleSingleStatus_GenericMessage(h, rec) ==
    IF rec.Status = StatusCompleted \/ rec.Status = StatusFailed
    THEN IF rec.Status = StatusFailed
         THEN Return(<<>>, ErrorsNew(FailedMessage(h)))
         ELSE Return(<<rec>>, NoErr)
    ELSE Goto("wait")

\* variant: the failed record is handed back together with the error
HandleSingleStatus_RecordWithError(h, rec) ==
    IF rec.Status = StatusCompleted \/ rec.Status = StatusFailed
    THEN IF rec.Status = StatusFailed
         THEN Return(<<rec>>, ErrorsNew(IF rec.Error # <<>> THEN rec.Error[1] ELSE FailedMessage(h)))
         ELSE Return(<<rec>>, NoErr)
    ELSE Goto("wait")

\* variant: cancelled ends a single-item helper as it ends a batch helper
HandleSingleStatus_CancelledTerminal(h, rec) ==
    IF rec.Status = StatusCompleted \/ rec.Status = StatusFailed \/ rec.Status = StatusCancelled
    THEN IF rec.Status = StatusFailed
         THEN Return(<<>>, ErrorsNew(IF rec.Error # <<>> THEN rec.Error[1] ELSE FailedMessage(h)))
         ELSE Return(<<rec>>, NoErr)
    ELSE Goto("wait")

\* the status test of CaptureAndWait / ExtractAndWait
HandleSingleStatus(h, rec) ==
    IF rec.Status = StatusCompleted \/ rec.Status = StatusFailed
    THEN IF rec.Status = StatusFailed
         THEN Return(<<>>, ErrorsNew(IF rec.Error # <<>> THEN rec.Error[1] ELSE FailedMessage(h)))
         ELSE Return(<<rec>>, NoErr)
    ELSE Goto("wait")

\* variant: a failed batch raises, as the single-item helpers do
HandleBatchStatus_RaiseOnFailed(rec) ==
    IF rec.Status = StatusCompleted \/ rec.Status = StatusFailed \/ rec.Status = StatusCancelled
    THEN IF rec.Status = StatusFailed
         THEN Return(<<>>, ErrorsNew("Batch job failed"))
         ELSE Return(<<rec>>, NoErr)
    ELSE Goto("wait")

\* variant: a terminal batch status is only looked at after the select
HandleBatchStatus_SelectFirst(rec) == Goto("wait")

\* the status test of both BatchAndWait
HandleBatchStatus(rec) ==
    IF rec.Status = StatusCompleted \/ rec.Status = StatusFailed \/ rec.Status = StatusCancelled
    THEN Return(<<rec>>, NoErr)
    ELSE Goto("wait")

\* variant: a failed get call is retried after the poll interval
HandleGet_RetryOnError(h, r) ==
    IF r.err # NoErr THEN Goto("wait")
    ELSE IF h \in SingleHelpers THEN HandleSingleStatus(h, r.rec[1])
    ELSE HandleBatchStatus(r.rec[1])

\* the loop body after the get call returned (rec, err)
HandleGet(h, r) ==
    IF r.err # NoErr THEN Return(<<>>, r.err)
    ELSE IF h \in SingleHelpers THEN HandleSingleStatus(h, r.rec[1])
    ELSE HandleBatchStatus(r.rec[1])

\* variant: the timer sleeps twice the poll interval
TimerDeadline_Double(t, pollInterval) == t + 2 * pollInterval

\* time.After(pollInterval): the instant the timer fires
TimerDeadline(t, pollInterval) == t + pollInterval

\* select { case <-ctx.Done(): ... case <-time.After(pollInterval): }
\* the cases that are ready; Go picks any one of them
SelectReady(ctxErr, t, deadline) ==
    (IF ctxErr # NoErr THEN {"ctx"} ELSE {}) \cup (IF t >= deadline THEN {"timer"} ELSE {})

\* the branch taken by the select
SelectStep(case, ctxErr) ==
    IF case = "ctx" THEN Return(<<>>, ctxErr) ELSE Goto("loop")

----------------------------------------------------------------------------
(* State: one record per call of a wait helper, and the clock.             *)
(*   pc          idle | start (start call in flight) | loop (at the loop   *)
(*               test) | get (get call in flight) | wait (in the select)   *)
(*               | done (returned)                                         *)
(*   ctxErr      ctx.Err() of the call's context                           *)
(*   cancelledIn the pc at which the context was cancelled                 *)
(*   issuedDone  the context was done when the request in flight was made  *)
(*   startCalls, getCalls   invocations of the start / get operation       *)
(*   respID      resp.ID of the start response; reqID the ID of the get    *)
(*   startErr, getErr, lastRec   what the last start / get call returned   *)
(*   result, err the values returned by the helper                         *)
(*   req         the request of the start or get call issued last          *)
(*   startReq    the Environment and ProjectID of the caller's request     *)
(* client holds the fields of the HTTPClient the calls go through.         *)
(* args and out hold the arguments and the result of a function that is    *)
(* applied on its own (options, transport, URL builder).                   *)

IdleCall ==
    [pc |-> "idle", helper |-> "", pollInterval |-> 0, timeout |-> 0,
     ctxErr |-> NoErr, cancelledIn |-> "", issuedDone |-> FALSE,
     startCalls |-> 0, getCalls |-> 0, respID |-> "", reqID |-> "",
     startTime |-> 0, startSpent |-> 0, getTime |-> 0, deadline |-> 0,
     startErr |-> NoErr, getErr |-> NoErr, lastRec |-> <<>>,
     result |-> <<>>, err |-> NoErr, returnedAt |-> 0, req |-> <<>>,
     startReq |-> NoScope]

Init ==
    /\ call = [c \in Calls |-> IdleCall]
    /\ now = 0
    /\ args = <<>>
    /\ out = <<>>
    /\ client = New("test-api-key", ServerURL)

\* the identifiers the server may give to the job that call c starts: each
\* start call creates a job of its own
NewJobIDs(c) == IF c = 1 THEN JobIDs ELSE {"ss-456"}

\* variant: the identifier to poll is kept in one place shared by all calls
Apply_SharedJobID(cr, o, t) ==
    IF o.next = "done"
    THEN [cr EXCEPT !.pc = "done", !.result = o.result, !.err = o.err, !.returnedAt = t]
    ELSE IF o.next = "wait"
    THEN [cr EXCEPT !.pc = "wait", !.deadline = TimerDeadline(t, cr.pollInterval)]
    ELSE IF o.next = "get"
    THEN [cr EXCEPT !.pc = "get", !.getCalls = @ + 1, !.reqID = call[1].respID,
                    !.issuedDone = (cr.ctxErr # NoErr),
                    !.req = BuildRequest(client, "GET", GetPath(cr.helper, call[1].respID, cr.startReq), "nil").req]
    ELSE [cr EXCEPT !.pc = o.next]

\* apply the step o of a helper to the call record cr at time t
Apply(cr, o, t) ==
    IF o.next = "done"
    THEN [cr EXCEPT !.pc = "done", !.result = o.result, !.err = o.err, !.returnedAt = t]
    ELSE IF o.next = "wait"
    THEN [cr EXCEPT !.pc = "wait", !.deadline = TimerDeadline(t, cr.pollInterval)]
    ELSE IF o.next = "get"
    THEN [cr EXCEPT !.pc = "get", !.getCalls = @ + 1, !.reqID = cr.respID,
                    !.issuedDone = (cr.ctxErr # NoErr),
                    !.req = BuildRequest(client, "GET", GetPath(cr.helper, cr.respID, cr.startReq), "nil").req]
    ELSE [cr EXCEPT !.pc = o.next]

\* the caller invokes helper h with options opts: the options are resolved
\* and the start call is issued
Invoke(c) ==
    /\ call[c].pc = "idle"
    /\ \E h \in Helpers, opts \in TimedOpts :
          LET o == ResolveOptions(h, opts)
          IN call' = [call EXCEPT ![c] =
                 [@ EXCEPT !.pc = "start", !.helper = h,
                           !.pollInterval = o.pollInterval, !.timeout = o.timeout,
                           !.startCalls = @ + 1,
                           !.req = BuildRequest(client, "POST", StartPath(h), "json").req]]
    /\ UNCHANGED <<now, args, out, client>>

\* the start call returns; on success startTime := time.Now()
StartReturn(c) ==
    /\ call[c].pc = "start"
    /\ \E id \in NewJobIDs(c) :
       \E rt \in RoundTrips(id, call[c].issuedDone, call[c].ctxErr # NoErr) :
          LET r == ClientCall(rt)
              cr == [call[c] EXCEPT !.startErr = r.err,
                                    !.respID = IF r.err = NoErr THEN r.rec[1].ID ELSE "",
                                    !.startTime = now]
          IN call' = [call EXCEPT ![c] = Apply(cr, HandleStart(r), now)]
    /\ UNCHANGED <<now, args, out, client>>

\* the loop test: issue the next get call or return the timeout error
LoopTest(c) ==
    /\ call[c].pc = "loop"
    /\ call' = [call EXCEPT ![c] =
           Apply(@, LoopStep(@.helper, now - @.startTime, @.timeout), now)]
    /\ UNCHANGED <<now, args, out, client>>

\* the get call returns and the rest of the loop body runs up to the select
GetReturn(c) ==
    /\ call[c].pc = "get"
    /\ \E rt \in RoundTrips(call[c].reqID, call[c].issuedDone, call[c].ctxErr # NoErr) :
          LET r == ClientCall(rt)
              cr == [call[c] EXCEPT !.getErr = r.err, !.lastRec = r.rec]
          IN call' = [call EXCEPT ![c] = Apply(cr, HandleGet(cr.helper, r), now)]
    /\ UNCHANGED <<now, args, out, client>>

\* the select takes the case <-ctx.Done()
SelectCtxDone(c) ==
    /\ call[c].pc = "wait"
    /\ "ctx" \in SelectReady(call[c].ctxErr, now, call[c].deadline)
    /\ call' = [call EXCEPT ![c] = Apply(@, SelectStep("ctx", @.ctxErr), now)]
    /\ UNCHANGED <<now, args, out, client>>

\* the select takes the case <-time.After(pollInterval)
SelectTimer(c) ==
    /\ call[c].pc = "wait"
    /\ "timer" \in SelectReady(call[c].ctxErr, now, call[c].deadline)
    /\ call' = [call EXCEPT ![c] = Apply(@, SelectStep("timer", @.ctxErr), now)]
    /\ UNCHANGED <<now, args, out, client>>

\* the caller's cancel() runs while the helper is blocked
Cancel(c) ==
    /\ call[c].pc \in {"start", "get", "wait"}
    /\ call[c].ctxErr = NoErr
    /\ call' = [call EXCEPT ![c] = [@ EXCEPT !.ctxErr = ContextCanceled, !.cancelledIn = call[c].pc]]
    /\ UNCHANGED <<now, args, out, client>>

\* time may pass for a call that is blocked with nothing ready
CanWait(cr) ==
    CASE cr.pc = "start" -> cr.startSpent < MaxStartTime /\ cr.ctxErr = NoErr
      [] cr.pc = "get" -> cr.getTime < MaxGetTime /\ cr.ctxErr = NoErr
      [] cr.pc = "wait" -> SelectReady(cr.ctxErr, now, cr.deadline) = {}
      [] cr.pc = "loop" -> FALSE
      [] OTHER -> TRUE

Tick ==
    /\ \E c \in Calls : call[c].pc \in {"start", "get", "wait"}
    /\ \A c \in Calls : CanWait(call[c])
    /\ now' = now + 1
    /\ call' = [c \in Calls |->
           IF call[c].pc = "start" THEN [call[c] EXCEPT !.startSpent = @ + 1]
           ELSE IF call[c].pc = "get" THEN [call[c] EXCEPT !.getTime = @ + 1]
           ELSE call[c]]
    /\ UNCHANGED <<args, out, client>>

Step(c) ==
    \/ Invoke(c)
    \/ StartReturn(c)
    \/ LoopTest(c)
    \/ GetReturn(c)
    \/ SelectCtxDone(c)
    \/ SelectTimer(c)
    \/ Cancel(c)

\* one goroutine calls one helper
Solo == {1}

Next == (\E c \in Solo : Step(c)) \/ Tick

Spec == Init /\ [][Next]_vars

\* every call in flight returns and time advances
FairSpec == Spec /\ WF_vars(Next)

----------------------------------------------------------------------------
(* Properties of the wait helpers *)

Returned(c) == call[c].pc = "done"

\* the last get call returned a record with status st
LastStatusIs(c, st) == call[c].lastRec # <<>> /\ call[c].lastRec[1].Status = st

\* C1: in every wait helper the start operation is invoked exactly once per
\* call; if it fails, its error is returned to the caller and the get-status
\* operation is never invoked.
C1_StartOnceErrorReturned ==
    \A c \in Calls :
        /\ call[c].startCalls = (IF call[c].pc = "idle" THEN 0 ELSE 1)
        /\ call[c].startErr # NoErr =>
               /\ Returned(c)
               /\ call[c].err = call[c].startErr
               /\ call[c].result = <<>>
               /\ call[c].getCalls = 0

C1_Witness ==
    \E c \in Calls : Returned(c) /\ call[c].startErr.kind = "APIError" /\ call[c].startCalls = 1

\* C2: if a get-status call made by a wait helper fails, the helper returns
\* that same error at once, without retrying, waiting or polling again,
\* whatever the number of polls already done.
C2_GetErrorReturnedAtOnce ==
    \A c \in Calls :
        call[c].getErr # NoErr =>
            /\ Returned(c)
            /\ call[c].err = call[c].getErr
            /\ call[c].result = <<>>

C2_Witness ==
    \E c \in Calls : Returned(c) /\ call[c].getErr.kind = "APIError" /\ call[c].getCalls = 3

\* C3: when the start call succeeded and the Nth get call is the first to
\* return the success status, with no cancellation, the helper returns the
\* record of that poll with a nil error, has issued the start call once and
\* the get call N >= 1 times, and does nothing after it (no later get call).
C3_SuccessReturnsNthRecord ==
    \A c \in Calls :
        (LastStatusIs(c, StatusCompleted) /\ call[c].ctxErr = NoErr) =>
            /\ Returned(c)
            /\ call[c].result = call[c].lastRec
            /\ call[c].err = NoErr
            /\ call[c].startCalls = 1
            /\ call[c].getCalls >= 1
            /\ call[c].result[1].ID = call[c].respID

C3_Witness ==
    \E c \in Calls :
        /\ Returned(c) /\ call[c].err = NoErr /\ call[c].ctxErr = NoErr
        /\ LastStatusIs(c, StatusCompleted) /\ call[c].getCalls = 3

\* C4: in CaptureAndWait and ExtractAndWait a get call that returns the
\* failed status makes the helper return a nil record and an error whose
\* message is the job's error text when the record carries one and the
\* generic message otherwise; the failed record is never returned.
C4_FailedStatusMessage ==
    \A c \in Calls :
        (call[c].helper \in SingleHelpers /\ LastStatusIs(c, StatusFailed)) =>
            /\ Returned(c)
            /\ call[c].result = <<>>
            /\ call[c].err.kind = "errorString"
            /\ call[c].err.msg =
                  (IF call[c].lastRec[1].Error # <<>> THEN call[c].lastRec[1].Error[1]
                   ELSE IF call[c].helper = "CaptureAndWait" THEN "Screenshot failed"
                   ELSE "Extraction failed")

C4_Witness ==
    \E c \in Calls :
        /\ Returned(c) /\ call[c].helper = "ExtractAndWait" /\ LastStatusIs(c, StatusFailed)
        /\ call[c].lastRec[1].Error = <<"Page load failed">>
        /\ call[c].err.msg = "Page load failed"

\* a get call of c returned a status that ends the helper
TerminalSeen(c) ==
    /\ call[c].lastRec # <<>>
    /\ call[c].lastRec[1].Status \in
          (IF call[c].helper \in SingleHelpers THEN {StatusCompleted, StatusFailed}
           ELSE {StatusCompleted, StatusFailed, StatusCancelled})

\* C5: when the context is cancelled after the start call succeeded and
\* before a get call returned a terminal status, a single-item helper returns
\* a nil record and an error equal to ctx.Err(), whether the cancellation
\* lands during an in-flight get call or during the wait between two polls.
C5_CancelReturnsCtxErr ==
    \A c \in Calls :
        (/\ Returned(c)
         /\ call[c].helper \in SingleHelpers
         /\ call[c].cancelledIn \in {"get", "wait"}
         /\ ~TerminalSeen(c)) =>
            /\ call[c].result = <<>>
            /\ call[c].err = call[c].ctxErr

\* C6: a cancellation that arrives while the helper waits between two polls
\* makes it return the cancellation error without another get call, also
\* when the poll timer is ready at the same moment.
C6_CancelInWaitReturnsAtOnce ==
    \A c \in Calls :
        call[c].cancelledIn = "wait" =>
            /\ call[c].pc \in {"wait", "done"}
            /\ Returned(c) => (call[c].err = call[c].ctxErr /\ call[c].result = <<>>)

\* time between the return of the start call and the return of the helper
Elapsed(c) == call[c].returnedAt - call[c].startTime

\* C7: a wait helper returns a *types.TimeoutError only when the loop exits
\* because the time elapsed since the start call returned has reached the
\* timeout and no get call returned a terminal status; never while the
\* elapsed time is below the timeout.
C7_TimeoutOnlyAfterDeadline ==
    \A c \in Calls :
        (Returned(c) /\ call[c].err.kind = "TimeoutError") =>
            /\ Elapsed(c) >= call[c].timeout
            /\ call[c].startErr = NoErr
            /\ call[c].getErr = NoErr
            /\ ~TerminalSeen(c)
            /\ call[c].result = <<>>
            /\ call[c].err # call[c].ctxErr

C7_Witness ==
    \E c \in Calls :
        Returned(c) /\ call[c].err.kind = "TimeoutError" /\ Elapsed(c) = call[c].timeout

\* every get call of c so far returned pending or processing at its end,
\* nothing failed and the context was never cancelled
StillInProgress(c) ==
    /\ call[c].startErr = NoErr /\ call[c].getErr = NoErr /\ call[c].ctxErr = NoErr
    /\ call[c].lastRec # <<>>
    /\ call[c].lastRec[1].Status \in {StatusPending, StatusProcessing}

\* C8: with get calls that only return a non-terminal status and without
\* cancellation the helper eventually returns, and it then returns a timeout
\* error, not before the timeout has elapsed and, the time spent inside the
\* get calls aside, not later than one poll interval after it.
C8_TimesOutWithinOneInterval ==
    /\ [](\A c \in Calls :
            (Returned(c) /\ StillInProgress(c)) =>
                /\ call[c].err.kind = "TimeoutError"
                /\ Elapsed(c) >= call[c].timeout
                /\ Elapsed(c) - call[c].getTime <= call[c].timeout + call[c].pollInterval)
    /\ \A c \in Calls : (call[c].pc = "loop") ~> Returned(c)

C8_Witness ==
    \E c \in Calls :
        /\ Returned(c) /\ StillInProgress(c) /\ call[c].err.kind = "TimeoutError"
        /\ call[c].getTime = 0 /\ Elapsed(c) > call[c].timeout

\* C9: both BatchAndWait helpers return the batch record with a nil error as
\* soon as a get call reports completed, failed or cancelled; a failed or
\* cancelled batch is never turned into an error, while the single-item
\* helpers raise on failed.
C9_BatchReturnsAnyTerminal ==
    \A c \in Calls :
        /\ (call[c].helper \in BatchHelpers /\ TerminalSeen(c)) =>
               /\ Returned(c)
               /\ call[c].result = call[c].lastRec
               /\ call[c].err = NoErr
        /\ (call[c].helper \in SingleHelpers /\ LastStatusIs(c, StatusFailed)) =>
               /\ Returned(c)
               /\ call[c].err # NoErr

C9_Witness ==
    \E c \in Calls :
        /\ Returned(c) /\ call[c].helper = "ExtractionBatchAndWait"
        /\ LastStatusIs(c, StatusFailed) /\ call[c].lastRec[1].Error # <<>>
        /\ call[c].err = NoErr /\ call[c].getCalls = 2

CeilDiv(a, b) == (a + b - 1) \div b

----------------------------------------------------------------------------
(* The kinds of return of a wait helper *)

\* (a) the record of the last get call, with a terminal status and no error
ReturnsRecord(c) ==
    /\ call[c].result # <<>> /\ call[c].err = NoErr
    /\ call[c].result = call[c].lastRec
    /\ TerminalSeen(c)
    /\ call[c].helper \in SingleHelpers => LastStatusIs(c, StatusCompleted)

\* (b) the error of the start call or of a get call
ReturnsRemoteError(c) ==
    /\ call[c].result = <<>> /\ call[c].err # NoErr
    /\ call[c].err.kind \in {"APIError", "wrapError", "jsonError"}
    /\ \/ call[c].err = call[c].startErr /\ call[c].getCalls = 0
       \/ call[c].err = call[c].getErr /\ call[c].getCalls > 0

\* (c) the domain failure of a single-item helper
ReturnsDomainFailure(c) ==
    /\ call[c].result = <<>> /\ call[c].err.kind = "errorString"
    /\ call[c].helper \in SingleHelpers
    /\ LastStatusIs(c, StatusFailed)

\* (d) the timeout error
ReturnsTimeout(c) ==
    call[c].result = <<>> /\ call[c].err.kind = "TimeoutError"

\* (e) the cancellation error ctx.Err()
ReturnsCancellation(c) ==
    /\ call[c].result = <<>> /\ call[c].err.kind = "context"
    /\ call[c].err = call[c].ctxErr

Count(b) == IF b THEN 1 ELSE 0

\* C11: every return of a wait helper is exactly one of (a) a terminal
\* record of the last get call with a nil error, (b) a remote error of the
\* start or a get call, (c) a domain failure (single-item helpers only),
\* (d) a timeout error, (e) a cancellation error; a record never comes with
\* an error and a nil record never with a nil error.
C11_ReturnKinds ==
    \A c \in Calls :
        Returned(c) =>
            /\ Count(ReturnsRecord(c)) + Count(ReturnsRemoteError(c))
                 + Count(ReturnsDomainFailure(c)) + Count(ReturnsTimeout(c))
                 + Count(ReturnsCancellation(c)) = 1
            /\ (call[c].result # <<>>) <=> (call[c].err = NoErr)

C11_Witness ==
    \E c \in Calls :
        /\ Returned(c) /\ ReturnsDomainFailure(c)
        /\ call[c].ctxErr # NoErr /\ call[c].getCalls = 2

\* a timer of time.After that has not fired at time t
TimerPending(c, t) == call[c].deadline > t

\* C12: no timer created by a wait helper outlives the call: on every return
\* path no poll-interval timer started by the helper is still pending.
C12_NoTimerOutlivesCall ==
    \A c \in Calls : Returned(c) => ~TimerPending(c, call[c].returnedAt)

(***************************************************************************)
(* The options of a wait helper on their own: a caller passes any options  *)
(* (nil, zero, negative or positive fields) to any helper, and the helper  *)
(* resolves them in its first lines.                                       *)
(***************************************************************************)
InitOptions ==
    /\ call = [c \in Calls |-> IdleCall]
    /\ now = 0
    /\ client = New("test-api-key", ServerURL)
    /\ args \in {<<h, opts>> : h \in Helpers, opts \in OptsChoices}
    /\ out = <<>>

InvokeWithOptions(c) ==
    /\ call[c].pc = "idle"
    /\ out = <<>>
    /\ LET o == ResolveOptions(args[1], args[2])
       IN /\ call' = [call EXCEPT ![c] =
                 [@ EXCEPT !.pc = "start", !.helper = args[1],
                           !.pollInterval = o.pollInterval, !.timeout = o.timeout,
                           !.startCalls = @ + 1,
                           !.req = BuildRequest(client, "POST", StartPath(args[1]), "json").req]]
          /\ out' = <<o>>
    /\ UNCHANGED <<now, args, client>>

NextOptions == \E c \in Solo : InvokeWithOptions(c)

SpecOptions == InitOptions /\ [][NextOptions]_vars

\* C13: with nil options a single-item helper uses 1s and 60s and a batch
\* helper 2s and 300s; each field of the options replaces its default on its
\* own exactly when it is greater than zero.
C13_OptionDefaults ==
    \A c \in Solo :
        call[c].pc = "start" /\ out # <<>> =>
            LET h == args[1]
                opts == args[2]
                single == h \in {"CaptureAndWait", "ExtractAndWait"}
                defP == IF single THEN 1 ELSE 2
                defT == IF single THEN 60 ELSE 300
            IN /\ call[c].helper = h
               /\ opts = <<>> => call[c].pollInterval = defP /\ call[c].timeout = defT
               /\ opts # <<>> =>
                     /\ opts[1].PollInterval > 0 => call[c].pollInterval = opts[1].PollInterval
                     /\ opts[1].PollInterval <= 0 => call[c].pollInterval = defP
                     /\ opts[1].Timeout > 0 => call[c].timeout = opts[1].Timeout
                     /\ opts[1].Timeout <= 0 => call[c].timeout = defT

\* a batch helper given a zero poll interval and a timeout of its own
C13_Witness ==
    \E c \in Solo :
        /\ call[c].pc = "start" /\ out # <<>>
        /\ args[1] \in BatchHelpers /\ args[2] # <<>>
        /\ args[2][1].PollInterval = 0 /\ args[2][1].Timeout = 3
        /\ call[c].pollInterval = 2 /\ call[c].timeout = 3

(***************************************************************************)
(* The transport on its own: one call of a method of HTTPClient at a time. *)
(* args = <<a>> holds the call (method, path, body, whether result is      *)
(* non-nil, the state of ctx, the request built); out = <<o>> what doing   *)
(* the request produced (rt, when a round trip took place), the value      *)
(* decoded into result (ZeroRec when result was left alone) and the error  *)
(* returned.                                                               *)
(***************************************************************************)
APIKeys == {"test-api-key", "sk_live_key"}

Paths == {<<"/test-path">>, <<"/webdata/screenshots/", "ss-123">>}

\* ctx of a transport call: never done, done before the call, or cancelled
\* while the request is in flight
Contexts == {"live", "done", "cancelled"}

DNSFailure == MkErr("netError", "no such host", "", 0, "")

UnexpectedEOF == MkErr("errorString", "unexpected EOF", "", 0, "")

\* what the network can answer to a transport call
TransportRoundTrips(id) ==
    ServerRoundTrips(id)
        \cup {Response(204, EmptyBody), Response(399, EmptyBody),
              Response(404, ErrorBody("Not found", "")),
              Response(500, ObjectBody(MkRec(id, StatusCompleted, <<>>))),
              ReadFailed(200, UnexpectedEOF), ReadFailed(500, UnexpectedEOF),
              DoFailed(DNSFailure)}

TransportOutcomes(id, ctx) ==
    IF ctx = "done" THEN {DoFailed(URLErrorCanceled)}
    ELSE IF ctx = "cancelled"
    THEN TransportRoundTrips(id) \cup {DoFailed(URLErrorCanceled), ReadFailed(200, ContextCanceled)}
    ELSE TransportRoundTrips(id)

\* the lines of Get, Post, Put, Patch, Delete and DeleteWithBody after
\* doRequest: decode into result when it is non-nil
MethodReturn(rt, want) ==
    IF want THEN HTTPDecode(rt) ELSE [rec |-> ZeroRec, err |-> doRequest(rt).err]

InitTransport ==
    /\ call = [c \in Calls |-> IdleCall]
    /\ now = 0
    /\ args = <<>>
    /\ out = <<>>
    /\ client \in {New(k, b) : k \in APIKeys, b \in {ServerURL, InvalidBaseURL}}

\* a method of HTTPClient is called: doRequest up to httpClient.Do
Issue(name, method, path, body, want, ctx) ==
    /\ args = <<>> /\ out = <<>>
    /\ \A c \in Calls : call[c].pc = "idle"
    /\ LET b == BuildRequest(client, method, path, body)
       IN /\ args' = <<[name |-> name, path |-> path, body |-> body, want |-> want,
                        ctx |-> ctx, req |-> b.req]>>
          /\ out' = IF b.err # NoErr
                    THEN <<[rt |-> <<>>, rec |-> ZeroRec, err |-> b.err]>>
                    ELSE <<>>
    /\ UNCHANGED <<call, now, client>>

Get ==
    \E path \in Paths, want \in BOOLEAN, ctx \in Contexts :
        Issue("Get", "GET", path, "nil", want, ctx)

Post ==
    \E path \in Paths, body \in Bodies, want \in BOOLEAN, ctx \in Contexts :
        Issue("Post", "POST", path, body, want, ctx)

Put ==
    \E path \in Paths, body \in Bodies, want \in BOOLEAN, ctx \in Contexts :
        Issue("Put", "PUT", path, body, want, ctx)

Patch ==
    \E path \in Paths, body \in Bodies, want \in BOOLEAN, ctx \in Contexts :
        Issue("Patch", "PATCH", path, body, want, ctx)

Delete ==
    \E path \in Paths, want \in BOOLEAN, ctx \in Contexts :
        Issue("Delete", "DELETE", path, "nil", want, ctx)

DeleteWithBody ==
    \E path \in Paths, body \in Bodies, want \in BOOLEAN, ctx \in Contexts :
        Issue("DeleteWithBody", "DELETE", path, body, want, ctx)

\* httpClient.Do returns and the method returns
Respond ==
    /\ args # <<>> /\ out = <<>>
    /\ \E id \in JobIDs :
       \E rt \in TransportOutcomes(id, args[1].ctx) :
          LET r == MethodReturn(rt, args[1].want)
          IN out' = <<[rt |-> <<rt>>, rec |-> r.rec, err |-> r.err]>>
    /\ UNCHANGED <<call, now, args, client>>

NextTransport == Get \/ Post \/ Put \/ Patch \/ Delete \/ DeleteWithBody \/ Respond

SpecTransport == InitTransport /\ [][NextTransport]_vars

\* the transport call has returned
TransportReturned == args # <<>> /\ out # <<>>

\* httpClient.Do returned a response (its status line and headers)
ResponseReceived(o) == o.rt # <<>> /\ o.rt[1].kind \in {"resp", "readErr"}

\* the error carries status 'sc' and what the body b holds
CarriesErrorBody(e, sc, b) ==
    /\ e.status = sc
    /\ b.kind = "object" => e.code = b.code /\ e.msg = b.message
    /\ b = ErrorBody("Invalid request", "INVALID_REQUEST") /\ sc = 400 =>
          e.status = 400 /\ e.code = "INVALID_REQUEST" /\ e.msg = "Invalid request"

\* C14 (as stated): a transport call returns an APIError exactly when a
\* response with status >= 400 was received; the error carries the status
\* and the decoded code and message, and no result is decoded.
C14_APIErrorIffStatusAtLeast400 ==
    TransportReturned =>
        LET o == out[1]
        IN /\ (o.err.kind = "APIError") <=> (ResponseReceived(o) /\ o.rt[1].code >= 400)
           /\ o.err.kind = "APIError" =>
                 CarriesErrorBody(o.err, o.rt[1].code, o.rt[1].body) /\ o.rec = ZeroRec

\* C14 (amended): a transport call returns an APIError exactly when a
\* response with status >= 400 was received and its body was read to the
\* end; a response whose body cannot be read gives a plain wrapped error
\* whatever its status.  The APIError carries the status and the decoded
\* code and message, and no result is decoded.
C14_APIErrorIffStatusAtLeast400AndBodyRead ==
    TransportReturned =>
        LET o == out[1]
        IN /\ (o.err.kind = "APIError") <=>
                 (o.rt # <<>> /\ o.rt[1].kind = "resp" /\ o.rt[1].code >= 400)
           /\ o.err.kind = "APIError" =>
                 CarriesErrorBody(o.err, o.rt[1].code, o.rt[1].body) /\ o.rec = ZeroRec
           /\ ResponseReceived(o) /\ o.rt[1].kind = "readErr" =>
                 o.err.kind = "wrapError" /\ o.err.msg = "failed to read response body"

\* Get with a result receives the 400 of the authors' test
C14_Witness ==
    /\ TransportReturned
    /\ args[1].name = "Get" /\ args[1].want
    /\ out[1].rt = <<Response(400, ErrorBody("Invalid request", "INVALID_REQUEST"))>>
    /\ out[1].err = APIError(400, "INVALID_REQUEST", "Invalid request")

\* no response: httpClient.Do failed
NetworkFailure(o) == o.rt # <<>> /\ o.rt[1].kind = "doErr"

\* C15 (as stated): a network-level failure is returned as the same error
\* kind as a status >= 400, an APIError.
C15_NetworkFailureIsAPIError ==
    TransportReturned /\ NetworkFailure(out[1]) => out[1].err.kind = "APIError"

\* C15 (amended): a network-level failure is returned as a plain error
\* wrapping the cause under "request failed"; it is not an APIError and has
\* no status code and no machine code, and no result is decoded.
C15_NetworkFailureIsWrappedError ==
    TransportReturned /\ NetworkFailure(out[1]) =>
        LET o == out[1]
        IN /\ o.err.kind = "wrapError" /\ o.err.kind # "APIError"
           /\ o.err.msg = "request failed" /\ o.err.cause = o.rt[1].err.msg
           /\ o.err.status = 0 /\ o.err.code = ""
           /\ o.rec = ZeroRec

\* a Post whose connection is refused
C15_Witness ==
    /\ TransportReturned
    /\ args[1].name = "Post" /\ args[1].ctx = "live"
    /\ out[1].rt = <<DoFailed(ConnRefused)>>
    /\ out[1].err.kind = "wrapError"

(***************************************************************************)
(* One client used for wait helpers and for direct transport calls: the    *)
(* client is built with any of the keys, and then runs either a wait       *)
(* helper or one call of a transport method.                               *)
(***************************************************************************)
InitClient ==
    /\ call = [c \in Calls |-> IdleCall]
    /\ now = 0
    /\ args = <<>>
    /\ out = <<>>
    /\ client \in {New(k, ServerURL) : k \in APIKeys}

HelperStep(c) == args = <<>> /\ Step(c)

ClockTick == args = <<>> /\ Tick

NextClient ==
    \/ \E c \in Solo : HelperStep(c)
    \/ ClockTick
    \/ Get \/ Post \/ Put \/ Patch \/ Delete \/ DeleteWithBody
    \/ Respond

SpecClient == InitClient /\ [][NextClient]_vars

\* the requests handed to httpClient.Do: by the start and get calls of the
\* wait helpers and by the transport methods called directly
RequestsIssued ==
    {call[c].req[1] : c \in {d \in Calls : call[d].req # <<>>}}
        \cup (IF args # <<>> /\ args[1].req # <<>> THEN {args[1].req[1]} ELSE {})

\* C16: every request issued through the transport, the polls of the wait
\* helpers included, carries Authorization: Bearer <key> with the key of the
\* client, and no step changes the key or the base URL of the client.
C16_BearerKeyOnEveryRequest ==
    /\ [](\A r \in RequestsIssued : r.Authorization = <<"Bearer ", client.apiKey>>)
    /\ [][client' = client]_vars

\* the second poll of a wait helper on a client built with the second key
C16_Witness ==
    \E c \in Calls :
        /\ call[c].pc = "get" /\ call[c].getCalls = 2
        /\ client.apiKey = "sk_live_key"
        /\ call[c].req # <<>> /\ call[c].req[1].method = "GET"
        /\ call[c].req[1].Authorization = <<"Bearer ", "sk_live_key">>

(***************************************************************************)
(* Two goroutines call wait helpers on the same client at the same time.   *)
(***************************************************************************)
Pair == {1, 2}

\* the first goroutine waits for a screenshot, the second for a batch
ConcHelpers(c) == IF c = 1 THEN {"CaptureAndWait"} ELSE {"ExtractionBatchAndWait"}

\* both poll every second for at most two seconds
ConcOpts == {<<[PollInterval |-> 1, Timeout |-> 2]>>}

\* what the server answers in this scenario: the job's record in one of
\* three states, an error status, or no answer
ConcRoundTrips(id) ==
    {Response(200, ObjectBody(MkRec(id, st, <<>>))) : st \in {StatusProcessing, StatusCompleted}}
        \cup {Response(200, ObjectBody(MkRec(id, StatusFailed, <<"Page load failed">>))),
              Response(400, ErrorBody("Invalid request", "INVALID_REQUEST")),
              DoFailed(ConnRefused)}

ConcOutcomes(id, doneAtIssue, doneNow) ==
    IF doneAtIssue THEN {DoFailed(URLErrorCanceled)}
    ELSE IF doneNow THEN ConcRoundTrips(id) \cup {DoFailed(URLErrorCanceled)}
    ELSE ConcRoundTrips(id)

InvokeConc(c) ==
    /\ call[c].pc = "idle"
    /\ \E h \in ConcHelpers(c), opts \in ConcOpts :
          LET o == ResolveOptions(h, opts)
          IN call' = [call EXCEPT ![c] =
                 [@ EXCEPT !.pc = "start", !.helper = h,
                           !.pollInterval = o.pollInterval, !.timeout = o.timeout,
                           !.startCalls = @ + 1,
                           !.req = BuildRequest(client, "POST", StartPath(h), "json").req]]
    /\ UNCHANGED <<now, args, out, client>>

StartReturnConc(c) ==
    /\ call[c].pc = "start"
    /\ \E id \in NewJobIDs(c) :
       \E rt \in ConcOutcomes(id, call[c].issuedDone, call[c].ctxErr # NoErr) :
          LET r == ClientCall(rt)
              cr == [call[c] EXCEPT !.startErr = r.err,
                                    !.respID = IF r.err = NoErr THEN r.rec[1].ID ELSE "",
                                    !.startTime = now]
          IN call' = [call EXCEPT ![c] = Apply(cr, HandleStart(r), now)]
    /\ UNCHANGED <<now, args, out, client>>

GetReturnConc(c) ==
    /\ call[c].pc = "get"
    /\ \E rt \in ConcOutcomes(call[c].reqID, call[c].issuedDone, call[c].ctxErr # NoErr) :
          LET r == ClientCall(rt)
              cr == [call[c] EXCEPT !.getErr = r.err, !.lastRec = r.rec]
          IN call' = [call EXCEPT ![c] = Apply(cr, HandleGet(cr.helper, r), now)]
    /\ UNCHANGED <<now, args, out, client>>

StepConc(c) ==
    \/ InvokeConc(c)
    \/ StartReturnConc(c)
    \/ LoopTest(c)
    \/ GetReturnConc(c)
    \/ SelectCtxDone(c)
    \/ SelectTimer(c)
    \/ Cancel(c)

NextConc == (\E c \in Pair : StepConc(c)) \/ Tick

SpecConc == Init /\ [][NextConc]_vars

\* the return of call c is one a call running alone makes: exactly one of
\* the five kinds, decided by the call's own responses, context and clock
OutcomeAsAlone(c) ==
    /\ Count(ReturnsRecord(c)) + Count(ReturnsRemoteError(c))
         + Count(ReturnsDomainFailure(c)) + Count(ReturnsTimeout(c))
         + Count(ReturnsCancellation(c)) = 1
    /\ call[c].result # <<>> => call[c].result[1].ID = call[c].respID
    /\ call[c].startErr # NoErr => call[c].err = call[c].startErr /\ call[c].getCalls = 0
    /\ ReturnsTimeout(c) => Elapsed(c) >= call[c].timeout
    /\ ReturnsCancellation(c) => call[c].cancelledIn # ""

\* C17: two wait helpers interleaved on one client, against different jobs:
\* each issues its own start call once, polls only the identifier its own
\* start call returned, and returns as it would alone; the fields of the
\* client stay as New set them.
C17_ConcurrentCallsDoNotInterfere ==
    /\ client = New("test-api-key", ServerURL)
    /\ \A c \in Pair :
          /\ call[c].pc # "idle" => call[c].startCalls = 1
          /\ call[c].getCalls > 0 =>
                /\ call[c].respID \in NewJobIDs(c)
                /\ call[c].reqID = call[c].respID
                /\ call[c].req = <<[method |-> "GET",
                                    url |-> <<client.baseURL, GetPath(call[c].helper, call[c].respID, call[c].startReq)>>,
                                    Authorization |-> <<"Bearer ", client.apiKey>>,
                                    ContentType |-> <<>>, hasBody |-> FALSE]>>
          /\ call[c].lastRec # <<>> => call[c].lastRec[1].ID = call[c].respID
          /\ Returned(c) => OutcomeAsAlone(c)
    /\ \A c \in Pair, d \in Pair :
          c # d /\ call[c].getCalls > 0 /\ call[d].getCalls > 0 => call[c].reqID # call[d].reqID

\* both calls are in their second poll at the same time
C17_Witness ==
    /\ \A c \in Pair : call[c].pc = "get" /\ call[c].getCalls = 2
    /\ call[1].reqID = "ss-123" /\ call[2].reqID = "ss-456"

(***************************************************************************)
(* cdn.Client.getNearestWidth.  An int has IntBits bits and arithmetic     *)
(* wraps around as Go's does; the list of widths fits in the range.        *)
(***************************************************************************)
MinInt == -(2^(IntBits - 1))
MaxInt == 2^(IntBits - 1) - 1

\* the value of an int expression whose mathematical value is x
Wrap(x) == ((x - MinInt) % (2^IntBits)) + MinInt

AllowedWidths == <<256, 384, 640, 750, 828, 1080, 1200, 1920, 2048, 3840>>

abs(x) == IF x < 0 THEN Wrap(-x) ELSE x

\* the loop of getNearestWidth from index i on, nearest being the best so far
RECURSIVE NearestFrom(_, _, _)
NearestFrom(i, nearest, width) ==
    IF i > Len(AllowedWidths) THEN nearest
    ELSE LET w == AllowedWidths[i]
         IN NearestFrom(i + 1,
                        IF abs(Wrap(w - width)) < abs(Wrap(nearest - width)) THEN w ELSE nearest,
                        width)

getNearestWidth(width) == NearestFrom(1, AllowedWidths[1], width)

InitWidth ==
    /\ call = [c \in Calls |-> IdleCall]
    /\ now = 0
    /\ client = New("test-api-key", ServerURL)
    /\ args \in {<<w>> : w \in MinInt..MaxInt}
    /\ out = <<>>

CallGetNearestWidth ==
    /\ out = <<>>
    /\ out' = <<getNearestWidth(args[1])>>
    /\ UNCHANGED <<call, now, args, client>>

NextWidth == CallGetNearestWidth

SpecWidth == InitWidth /\ [][NextWidth]_vars

WidthSet == {AllowedWidths[i] : i \in 1..Len(AllowedWidths)}

\* the distance between two integers
Distance(a, b) == IF a < b THEN b - a ELSE a - b

\* C18: for every integer width w the result is a member of the list at
\* minimal distance from w, the smaller one when two members are equally
\* near (100 -> 256, 1100 -> 1080, 4000 -> 3840, 320 -> 256).
C18_NearestMemberTiesToSmaller ==
    out # <<>> =>
        LET w == args[1]
            r == out[1]
        IN /\ r \in WidthSet
           /\ \A a \in WidthSet : Distance(r, w) <= Distance(a, w)
           /\ \A a \in WidthSet : Distance(a, w) = Distance(r, w) => r <= a
           /\ w = 100 => r = 256
           /\ w = 1100 => r = 1080
           /\ w = 4000 => r = 3840
           /\ w = 320 => r = 256

\* the table of TestClient_GetNearestWidth: <<input, expected>>
TestCases ==
    {<<100, 256>>, <<300, 256>>, <<400, 384>>, <<600, 640>>, <<700, 750>>,
     <<800, 828>>, <<1000, 1080>>, <<1100, 1080>>, <<1500, 1200>>, <<1800, 1920>>,
     <<2000, 2048>>, <<3000, 2048>>, <<4000, 3840>>}

\* C19: getNearestWidth maps every input of the authors' test table to the
\* width the table expects.
C19_TestTableHolds ==
    out # <<>> => \A tc \in TestCases : args[1] = tc[1] => out[1] = tc[2]

(***************************************************************************)
(* cdn.Client.GetTransformURL.  A string is the sequence of its parts, so  *)
(* that + is \o and two strings are equal when their parts are; a URL is   *)
(* <<scheme, "://", host, path, "?", query, "#", fragment>> with the parts *)
(* it has.  A pointer field of the options is <<>> (nil) or <<v>>.         *)
(***************************************************************************)
PointerFields ==
    {"Format", "Quality", "Width", "Height", "Fit", "Crop", "CropX", "CropY",
     "CropWidth", "CropHeight", "Blur", "Sharpen", "Brightness", "Saturation", "Rotate"}

BoolFields == {"Grayscale", "Flip", "Flop"}

OptionFields == PointerFields \cup BoolFields

\* the value a caller gives to field f when it sets it
SampleValue(f) ==
    CASE f = "Format" -> "webp" [] f = "Quality" -> 80 [] f = "Width" -> 800
      [] f = "Height" -> 600 [] f = "Fit" -> "cover" [] f = "Crop" -> "top left"
      [] f = "CropX" -> 10 [] f = "CropY" -> 20 [] f = "CropWidth" -> 100
      [] f = "CropHeight" -> 50 [] f = "Blur" -> 5 [] f = "Sharpen" -> 2
      [] f = "Brightness" -> 10 [] f = "Saturation" -> -10 [] f = "Rotate" -> 90

Ptr(S, f) == IF f \in S THEN <<SampleValue(f)>> ELSE <<>>

\* TransformOptions with exactly the fields of S set
OptionsWith(S) ==
    [Format |-> Ptr(S, "Format"), Quality |-> Ptr(S, "Quality"), Width |-> Ptr(S, "Width"),
     Height |-> Ptr(S, "Height"), Fit |-> Ptr(S, "Fit"), Crop |-> Ptr(S, "Crop"),
     CropX |-> Ptr(S, "CropX"), CropY |-> Ptr(S, "CropY"),
     CropWidth |-> Ptr(S, "CropWidth"), CropHeight |-> Ptr(S, "CropHeight"),
     Blur |-> Ptr(S, "Blur"), Sharpen |-> Ptr(S, "Sharpen"),
     Brightness |-> Ptr(S, "Brightness"), Saturation |-> Ptr(S, "Saturation"),
     Grayscale |-> "Grayscale" \in S, Rotate |-> Ptr(S, "Rotate"),
     Flip |-> "Flip" \in S, Flop |-> "Flop" \in S]

\* the sets of fields a caller sets: few of them, or all
FieldSets ==
    {S \in SUBSET OptionFields : Cardinality(S) <= MaxSetOptions} \cup {OptionFields}

\* *TransformOptions: nil or a struct
TransformOptionsChoices == {<<>>} \cup {<<OptionsWith(S)>> : S \in FieldSets}

\* the asset references a caller passes: full URLs (plain, with a query,
\* with a fragment, with a host url.Parse rejects), and keys
AssetRefs ==
    {<<"https", "://", "cdn.example.com", "/image.jpg">>,
     <<"http", "://", "cdn.example.com", "/image.jpg">>,
     <<"https", "://", "cdn.example.com", "/image.jpg", "?", "v=2">>,
     <<"https", "://", "cdn.example.com", "/image.jpg", "#", "top">>,
     <<"https", "://", "cdn.example.com">>,
     <<"https", "://", "bad host", "/image.jpg">>,
     <<"HTTPS", "://", "cdn.example.com", "/image.jpg">>,
     <<"uploads/image.jpg">>}

\* the cdnURL the client was built with: none, plain, with a trailing slash
CDNURLs == {<<>>, <<"https://cdn.example.com">>, <<"https://cdn.example.com", "/">>}

\* strings.HasPrefix(s, "http://") || strings.HasPrefix(s, "https://")
HasHTTPPrefix(s) == Len(s) >= 2 /\ s[1] \in {"http", "https"} /\ s[2] = "://"

\* the first index of part t in s, 0 when there is none
IndexOf(s, t) ==
    IF \E i \in 1..Len(s) : s[i] = t
    THEN CHOOSE i \in 1..Len(s) : s[i] = t /\ \A j \in 1..(i - 1) : s[j] # t
    ELSE 0

\* url.Parse of a string with an http(s) prefix
URLParse(s) ==
    LET fi == IndexOf(s, "#")
        noFrag == IF fi > 0 THEN SubSeq(s, 1, fi - 1) ELSE s
        qi == IndexOf(noFrag, "?")
        noQuery == IF qi > 0 THEN SubSeq(noFrag, 1, qi - 1) ELSE noFrag
    IN IF Len(noQuery) >= 3 /\ noQuery[3] = "bad host"
       THEN [err |-> URLParseError, Scheme |-> "", Host |-> "", Path |-> "",
             RawQuery |-> "", Fragment |-> ""]
       ELSE [err |-> NoErr, Scheme |-> noQuery[1],
             Host |-> IF Len(noQuery) >= 3 THEN noQuery[3] ELSE "",
             Path |-> IF Len(noQuery) >= 4 THEN noQuery[4] ELSE "",
             RawQuery |-> IF qi > 0 /\ qi < Len(noFrag) THEN noFrag[qi + 1] ELSE "",
             Fragment |-> IF fi > 0 /\ fi < Len(s) THEN s[fi + 1] ELSE ""]

\* a part of a string; the empty string has no part
Str(t) == IF t = "" THEN <<>> ELSE <<t>>

\* strings.TrimSuffix(s, "/")
TrimSlash(s) == IF Len(s) > 0 /\ s[Len(s)] = "/" THEN SubSeq(s, 1, Len(s) - 1) ELSE s

\* strconv.Itoa
Itoa(n) == ToString(n)

\* url.QueryEscape on the values used here
QueryEscape(v) ==
    CASE v = "top left" -> "top+left"
      [] v = "https://example.com" -> "https%3A%2F%2Fexample.com"
      [] v = "user@example.com" -> "user%40example.com"
      [] v = "2024-01-01T00:00:00Z" -> "2024-01-01T00%3A00%3A00Z"
      [] v = "2024-01-31T00:00:00Z" -> "2024-01-31T00%3A00%3A00Z"
      [] OTHER -> v

\* the keys of the query in the order url.Values.Encode puts them (sorted)
KeyOrder ==
    <<"blur", "brightness", "crop", "crop-h", "crop-w", "crop-x", "crop-y", "cursor",
      "endDate", "environment", "f", "fit", "flip", "flop", "from", "grayscale", "h",
      "isActive", "limit", "offset", "projectId", "projectSlug", "q", "rotate",
      "saturation", "sharpen", "sortBy", "sortOrder", "startDate", "status", "subject",
      "tag", "to", "type", "url", "w">>

\* the params.Set calls of buildTransformQuery: pairs <<key, value>>
SetParams(options) ==
    (IF options.Format # <<>> THEN {<<"f", options.Format[1]>>} ELSE {}) \cup
    (IF options.Quality # <<>> THEN {<<"q", Itoa(options.Quality[1])>>} ELSE {}) \cup
    (IF options.Width # <<>> THEN {<<"w", Itoa(getNearestWidth(options.Width[1]))>>} ELSE {}) \cup
    (IF options.Height # <<>> THEN {<<"h", Itoa(options.Height[1])>>} ELSE {}) \cup
    (IF options.Fit # <<>> THEN {<<"fit", options.Fit[1]>>} ELSE {}) \cup
    (IF options.Crop # <<>> THEN {<<"crop", options.Crop[1]>>} ELSE {}) \cup
    (IF options.CropX # <<>> THEN {<<"crop-x", Itoa(options.CropX[1])>>} ELSE {}) \cup
    (IF options.CropY # <<>> THEN {<<"crop-y", Itoa(options.CropY[1])>>} ELSE {}) \cup
    (IF options.CropWidth # <<>> THEN {<<"crop-w", Itoa(options.CropWidth[1])>>} ELSE {}) \cup
    (IF options.CropHeight # <<>> THEN {<<"crop-h", Itoa(options.CropHeight[1])>>} ELSE {}) \cup
    (IF options.Blur # <<>> THEN {<<"blur", Itoa(options.Blur[1])>>} ELSE {}) \cup
    (IF options.Sharpen # <<>> THEN {<<"sharpen", Itoa(options.Sharpen[1])>>} ELSE {}) \cup
    (IF options.Brightness # <<>> THEN {<<"brightness", Itoa(options.Brightness[1])>>} ELSE {}) \cup
    (IF options.Saturation # <<>> THEN {<<"saturation", Itoa(options.Saturation[1])>>} ELSE {}) \cup
    (IF options.Grayscale THEN {<<"grayscale", "true">>} ELSE {}) \cup
    (IF options.Rotate # <<>> THEN {<<"rotate", Itoa(options.Rotate[1])>>} ELSE {}) \cup
    (IF options.Flip THEN {<<"flip", "y">>} ELSE {}) \cup
    (IF options.Flop THEN {<<"flop", "x">>} ELSE {})

\* the keys of the map params
Keys(params) == {p[1] : p \in params}

\* the sequences that hold each member of the set S once
Perms(S) ==
    {q \in [1..Cardinality(S) -> S] : \A i, j \in 1..Cardinality(S) : q[i] = q[j] => i = j}

Reverse(q) == [i \in 1..Len(q) |-> q[Len(q) + 1 - i]]

\* the orders in which "for k := range params" may yield the keys: a Go map
\* is iterated in no fixed order.  Every order of a small map, two orders of
\* a large one.
IterOrders(params) ==
    IF Cardinality(Keys(params)) <= MaxSetOptions
    THEN Perms(Keys(params))
    ELSE LET asc == SelectSeq(KeyOrder, LAMBDA k : k \in Keys(params))
         IN {asc, Reverse(asc)}

\* sort.Strings on a slice of keys
SortStrings(keys) ==
    SelectSeq(KeyOrder, LAMBDA k : \E i \in 1..Len(keys) : keys[i] = k)

\* the loop of url.Values.Encode over the slice keys from index i on, buf
\* being the output so far
RECURSIVE EncodeFrom(_, _, _, _)
EncodeFrom(i, keys, params, buf) ==
    IF i > Len(keys) THEN buf
    ELSE LET k == keys[i]
             v == (CHOOSE p \in params : p[1] = k)[2]
             sep == IF buf = <<>> THEN <<>> ELSE <<"&">>
         IN EncodeFrom(i + 1, keys, params, buf \o sep \o <<k, "=", QueryEscape(v)>>)

\* variant: the keys are written in the order the map yields them
Encode_MapOrder(params, iter) == EncodeFrom(1, iter, params, <<>>)

\* url.Values.Encode: collect the keys of the map (in the order iter the map
\* yields them), sort them, write key=value joined by "&"
Encode(params, iter) == EncodeFrom(1, SortStrings(iter), params, <<>>)

\* the query of the options; iter is the order in which the map of
\* parameters yields its keys
buildTransformQuery(options, iter) ==
    IF options = <<>> THEN <<>> ELSE Encode(SetParams(options[1]), iter)

\* the iteration orders of the parameter map of the options
OptionIterOrders(options) ==
    IF options = <<>> THEN {<<>>} ELSE IterOrders(SetParams(options[1]))

ErrNoCDNURL ==
    MkErr("errorString", "getTransformURL requires either a full URL or cdnURL to be configured",
          "", 0, "")

\* variant: a key is accepted when no cdnURL is configured
GetTransformURL_KeyWithoutCDN(cdnURL, assetURLOrS3Key, options, iter) ==
    LET parsed == URLParse(assetURLOrS3Key)
        params == buildTransformQuery(options, iter)
    IN IF HasHTTPPrefix(assetURLOrS3Key) /\ parsed.err # NoErr
       THEN [url |-> <<>>, err |-> parsed.err]
       ELSE LET baseURL ==
                    IF HasHTTPPrefix(assetURLOrS3Key)
                    THEN <<parsed.Scheme, "://">> \o Str(parsed.Host) \o Str(parsed.Path)
                    ELSE TrimSlash(cdnURL) \o <<"/">> \o assetURLOrS3Key
            IN IF params = <<>>
               THEN [url |-> baseURL, err |-> NoErr]
               ELSE [url |-> baseURL \o <<"?">> \o params, err |-> NoErr]

\* variant: the query is appended even when it is empty
GetTransformURL_AlwaysQuery(cdnURL, assetURLOrS3Key, options, iter) ==
    LET parsed == URLParse(assetURLOrS3Key)
        params == buildTransformQuery(options, iter)
    IN IF HasHTTPPrefix(assetURLOrS3Key) /\ parsed.err # NoErr
       THEN [url |-> <<>>, err |-> parsed.err]
       ELSE IF ~HasHTTPPrefix(assetURLOrS3Key) /\ cdnURL = <<>>
       THEN [url |-> <<>>, err |-> ErrNoCDNURL]
       ELSE LET baseURL ==
                    IF HasHTTPPrefix(assetURLOrS3Key)
                    THEN <<parsed.Scheme, "://">> \o Str(parsed.Host) \o Str(parsed.Path)
                    ELSE TrimSlash(cdnURL) \o <<"/">> \o assetURLOrS3Key
            IN [url |-> baseURL \o <<"?">> \o params, err |-> NoErr]

GetTransformURL(cdnURL, assetURLOrS3Key, options, iter) ==
    LET parsed == URLParse(assetURLOrS3Key)
        params == buildTransformQuery(options, iter)
    IN IF HasHTTPPrefix(assetURLOrS3Key) /\ parsed.err # NoErr
       THEN [url |-> <<>>, err |-> parsed.err]
       ELSE IF ~HasHTTPPrefix(assetURLOrS3Key) /\ cdnURL = <<>>
       THEN [url |-> <<>>, err |-> ErrNoCDNURL]
       ELSE LET baseURL ==
                    IF HasHTTPPrefix(assetURLOrS3Key)
                    THEN <<parsed.Scheme, "://">> \o Str(parsed.Host) \o Str(parsed.Path)
                    ELSE TrimSlash(cdnURL) \o <<"/">> \o assetURLOrS3Key
            IN IF params = <<>>
               THEN [url |-> baseURL, err |-> NoErr]
               ELSE [url |-> baseURL \o <<"?">> \o params, err |-> NoErr]

\* args = <<cdnURL of the client, asset reference, options>>
InitTransformURL ==
    /\ call = [c \in Calls |-> IdleCall]
    /\ now = 0
    /\ client = New("test-api-key", ServerURL)
    /\ args \in {<<u, r, o>> : u \in CDNURLs, r \in AssetRefs, o \in TransformOptionsChoices}
    /\ out = <<>>

CallGetTransformURL ==
    /\ out = <<>>
    /\ \E iter \in OptionIterOrders(args[3]) :
          out' = <<GetTransformURL(args[1], args[2], args[3], iter)>>
    /\ UNCHANGED <<call, now, args, client>>

NextTransformURL == CallGetTransformURL

SpecTransformURL == InitTransformURL /\ [][NextTransformURL]_vars

\* the fields of the options that are set
SetFields(options) ==
    IF options = <<>> THEN {}
    ELSE {f \in PointerFields : options[1][f] # <<>>} \cup {f \in BoolFields : options[1][f]}

\* the query key of an option field
FieldKey(f) ==
    CASE f = "Format" -> "f" [] f = "Quality" -> "q" [] f = "Width" -> "w"
      [] f = "Height" -> "h" [] f = "Fit" -> "fit" [] f = "Crop" -> "crop"
      [] f = "CropX" -> "crop-x" [] f = "CropY" -> "crop-y" [] f = "CropWidth" -> "crop-w"
      [] f = "CropHeight" -> "crop-h" [] f = "Blur" -> "blur" [] f = "Sharpen" -> "sharpen"
      [] f = "Brightness" -> "brightness" [] f = "Saturation" -> "saturation"
      [] f = "Grayscale" -> "grayscale" [] f = "Rotate" -> "rotate"
      [] f = "Flip" -> "flip" [] f = "Flop" -> "flop"

\* q is key=value(&key=value)* with exactly the keys of the set ks, once each
QueryHasExactly(q, ks) ==
    /\ Len(q) % 4 = 3
    /\ LET n == (Len(q) + 1) \div 4
       IN /\ \A i \in 1..n : q[4 * i - 2] = "=" /\ (i < n => q[4 * i] = "&")
          /\ {q[4 * i - 3] : i \in 1..n} = ks
          /\ n = Cardinality(ks)

\* url is base when no option is set, and base ? query of the set options
\* otherwise
BaseOrBaseWithQuery(url, base, options) ==
    IF SetFields(options) = {}
    THEN url = base
    ELSE /\ Len(url) > Len(base) + 1
         /\ SubSeq(url, 1, Len(base)) = base
         /\ url[Len(base) + 1] = "?"
         /\ QueryHasExactly(SubSeq(url, Len(base) + 2, Len(url)),
                            {FieldKey(f) : f \in SetFields(options)})

\* the call returned a URL
TransformURLReturned == out # <<>> /\ out[1].err = NoErr

\* C20 (as stated): the result is the base URL unchanged when the options
\* are nil or none is set, and base URL + "?" + one parameter per set option
\* otherwise, the base URL being the given full URL, or the configured CDN
\* URL + "/" + key.
C20_GivenURLOrWithQuery ==
    TransformURLReturned =>
        BaseOrBaseWithQuery(out[1].url,
                            IF HasHTTPPrefix(args[2]) THEN args[2]
                            ELSE args[1] \o <<"/">> \o args[2],
                            args[3])

\* s up to its first "?" or "#"
BeforeQueryAndFragment(s) ==
    LET cut == {i \in 1..Len(s) : s[i] \in {"?", "#"}}
    IN IF cut = {} THEN s
       ELSE SubSeq(s, 1, (CHOOSE i \in cut : \A j \in cut : i <= j) - 1)

\* C20 (amended): the same, the base URL being the given full URL without
\* its query and fragment (scheme://host/path), or the configured CDN URL
\* with one trailing "/" removed + "/" + key.
C20_SchemeHostPathOrWithQuery ==
    TransformURLReturned =>
        BaseOrBaseWithQuery(out[1].url,
                            IF HasHTTPPrefix(args[2]) THEN BeforeQueryAndFragment(args[2])
                            ELSE (IF args[1][Len(args[1])] = "/"
                                  THEN SubSeq(args[1], 1, Len(args[1]) - 1) ELSE args[1])
                                     \o <<"/">> \o args[2],
                            args[3])

\* the authors' test: a full URL with Width 800 and Quality 80
C20_Witness ==
    /\ TransformURLReturned
    /\ args[2] = <<"https", "://", "cdn.example.com", "/image.jpg">>
    /\ SetFields(args[3]) = {"Width", "Quality"}
    /\ out[1].url = <<"https", "://", "cdn.example.com", "/image.jpg", "?",
                      "q", "=", "80", "&", "w", "=", "828">>

(***************************************************************************)
(* GetTransformURL called twice on one client with the same asset          *)
(* reference and with options that hold the same values, the caller having *)
(* assigned the fields in two different orders.                            *)
(* args = <<cdnURL, asset reference, order of assignment for the first     *)
(* call, order of assignment for the second call>>; out the results so far.*)
(***************************************************************************)
\* the fields of TransformOptions in the order of their declaration
FieldsDeclared ==
    <<"Width", "Height", "Fit", "Format", "Quality", "Crop", "CropX", "CropY",
      "CropWidth", "CropHeight", "Blur", "Sharpen", "Brightness", "Saturation",
      "Grayscale", "Rotate", "Flip", "Flop">>

\* opts.f = v for each f of order from index i on
RECURSIVE AssignFrom(_, _, _)
AssignFrom(i, order, opts) ==
    IF i > Len(order) THEN opts
    ELSE AssignFrom(i + 1, order,
                    [opts EXCEPT ![order[i]] =
                        IF order[i] \in BoolFields THEN TRUE ELSE <<SampleValue(order[i])>>])

\* &TransformOptions{} followed by the assignments of order
OptionsAssigned(order) == <<AssignFrom(1, order, OptionsWith({}))>>

\* two orders of assignment of the same fields
OrderPairs ==
    UNION {{<<o1, o2>> : o1 \in Perms(S), o2 \in Perms(S)} :
              S \in {T \in SUBSET OptionFields : Cardinality(T) <= MaxSetOptions}}

TwiceRefs == {<<"https", "://", "cdn.example.com", "/image.jpg">>, <<"uploads/image.jpg">>}

InitTransformTwice ==
    /\ call = [c \in Calls |-> IdleCall]
    /\ now = 0
    /\ client = New("test-api-key", ServerURL)
    /\ args \in {<<<<"https://cdn.example.com">>, r, op[1], op[2]>> :
                     r \in TwiceRefs,
                     op \in OrderPairs \cup {<<FieldsDeclared, Reverse(FieldsDeclared)>>}}
    /\ out = <<>>

CallGetTransformURLAgain ==
    /\ Len(out) < 2
    /\ LET options == OptionsAssigned(args[3 + Len(out)])
       IN \E iter \in OptionIterOrders(options) :
             out' = Append(out, GetTransformURL(args[1], args[2], options, iter))
    /\ UNCHANGED <<call, now, args, client>>

NextTransformTwice == CallGetTransformURLAgain

SpecTransformTwice == InitTransformTwice /\ [][NextTransformTwice]_vars

\* the keys of the query of url, in the order they appear
QueryKeysOf(url) ==
    LET qi == IndexOf(url, "?")
        q == IF qi = 0 THEN <<>> ELSE SubSeq(url, qi + 1, Len(url))
    IN [i \in 1..((Len(q) + 1) \div 4) |-> q[4 * i - 3]]

\* C21: two calls with the same asset reference and the same options on one
\* client return the same string, and the parameters appear in one fixed
\* order (that of KeyOrder) whatever the order in which the options were set.
C21_SameStringFixedOrder ==
    Len(out) = 2 =>
        /\ out[1] = out[2]
        /\ \A n \in 1..2 :
              LET ks == QueryKeysOf(out[n].url)
              IN \A i, j \in 1..Len(ks) :
                    i < j => IndexOf(KeyOrder, ks[i]) < IndexOf(KeyOrder, ks[j])

\* Width then Quality for the first call, Quality then Width for the second
C21_Witness ==
    /\ Len(out) = 2
    /\ args[3] = <<"Width", "Quality">> /\ args[4] = <<"Quality", "Width">>
    /\ out[2].url = <<"https", "://", "cdn.example.com", "/image.jpg", "?",
                      "q", "=", "80", "&", "w", "=", "828">>

\* the call of GetTransformURL has returned (SpecTransformURL)
TransformURLCalled == out # <<>>

\* C22 (as stated): GetTransformURL fails exactly when the asset reference
\* is not a full http(s) URL and no CDN URL is configured, with the
\* configuration error and no URL; every other input succeeds.
C22_FailsOnlyWithoutCDNURL ==
    TransformURLCalled =>
        /\ (out[1].err # NoErr) <=> (~HasHTTPPrefix(args[2]) /\ args[1] = <<>>)
        /\ out[1].err # NoErr => out[1].err = ErrNoCDNURL /\ out[1].url = <<>>

\* C22 (amended): GetTransformURL fails exactly when (a) the asset reference
\* does not start with http:// or https:// and no CDN URL is configured, with
\* the configuration error, or (b) it starts with http:// or https:// and
\* url.Parse rejects it, with the error of url.Parse; no URL is returned in
\* either case, and every other input succeeds whatever the options.
C22_FailsWithoutCDNURLOrOnParseError ==
    TransformURLCalled =>
        LET full == HasHTTPPrefix(args[2])
            rejected == full /\ args[2][3] = "bad host"
        IN /\ (out[1].err # NoErr) <=> ((~full /\ args[1] = <<>>) \/ rejected)
           /\ ~full /\ args[1] = <<>> => out[1].err = ErrNoCDNURL /\ out[1].url = <<>>
           /\ rejected => out[1].err = URLParseError /\ out[1].url = <<>>
           /\ out[1].err = NoErr => out[1].url # <<>>

\* the authors' test: a key, no CDN URL, empty options
C22_Witness ==
    /\ TransformURLCalled
    /\ args[1] = <<>> /\ args[2] = <<"uploads/image.jpg">> /\ args[3] = <<OptionsWith({})>>
    /\ out[1].err = ErrNoCDNURL /\ out[1].url = <<>>

\* ---------------------------------------------------------------------------
\* The list methods: the query of a list request

\* the list methods modelled: List of the screenshots, extraction and mail
\* clients, ListBatchJobs and ListSchedules of the screenshots and extraction
\* clients
ListMethods ==
    {"screenshots.List", "extraction.List", "mail.List",
     "screenshots.ListBatchJobs", "extraction.ListBatchJobs",
     "screenshots.ListSchedules", "extraction.ListSchedules"}

TypedMethods ==
    {"screenshots.ListBatchJobs", "extraction.ListBatchJobs",
     "screenshots.ListSchedules", "extraction.ListSchedules"}

\* the `if req.F != nil { params.Set(key, ...) }` statements of a method, in
\* the order of the code: pairs <<field, key>>
ListFields(m) ==
    CASE m \in {"screenshots.List", "extraction.List"} ->
           <<<<"Environment", "environment">>, <<"ProjectID", "projectId">>,
             <<"Status", "status">>, <<"URL", "url">>, <<"Limit", "limit">>,
             <<"Cursor", "cursor">>>>
      [] m \in {"screenshots.ListBatchJobs", "extraction.ListBatchJobs"} ->
           <<<<"Environment", "environment">>, <<"ProjectID", "projectId">>,
             <<"Status", "status">>, <<"Limit", "limit">>, <<"Cursor", "cursor">>>>
      [] m \in {"screenshots.ListSchedules", "extraction.ListSchedules"} ->
           <<<<"Environment", "environment">>, <<"ProjectID", "projectId">>,
             <<"IsActive", "isActive">>, <<"Limit", "limit">>, <<"Cursor", "cursor">>>>
      [] m = "mail.List" ->
           <<<<"ProjectSlug", "projectSlug">>, <<"Environment", "environment">>,
             <<"Limit", "limit">>, <<"Offset", "offset">>, <<"Status", "status">>,
             <<"From", "from">>, <<"To", "to">>, <<"Subject", "subject">>,
             <<"Tag", "tag">>, <<"StartDate", "startDate">>, <<"EndDate", "endDate">>,
             <<"SortBy", "sortBy">>, <<"SortOrder", "sortOrder">>>>

\* the path of the method before the query
ListBasePath(m) ==
    CASE m = "screenshots.List" -> "/webdata/screenshots"
      [] m = "extraction.List" -> "/webdata/extractions"
      [] m = "mail.List" -> "/mail"
      [] m \in {"screenshots.ListBatchJobs", "extraction.ListBatchJobs"} -> "/webdata/batch"
      [] m \in {"screenshots.ListSchedules", "extraction.ListSchedules"} -> "/webdata/schedules"

\* the value of params.Set("type", ...) of the method
ListType(m) ==
    CASE m \in {"screenshots.ListBatchJobs", "screenshots.ListSchedules"} -> "screenshot"
      [] m \in {"extraction.ListBatchJobs", "extraction.ListSchedules"} -> "extraction"

ListFieldNames(m) == {ListFields(m)[i][1] : i \in 1..Len(ListFields(m))}

ListKeys(m) == {ListFields(m)[i][2] : i \in 1..Len(ListFields(m))}

\* strconv.FormatBool
FormatBool(b) == IF b THEN "true" ELSE "false"

\* time.Time.Format("2006-01-02T15:04:05Z07:00") of a UTC midnight <<y, m, d>>
FormatTime(t) ==
    LET two(n) == IF n < 10 THEN "0" \o ToString(n) ELSE ToString(n)
    IN ToString(t[1]) \o "-" \o two(t[2]) \o "-" \o two(t[3]) \o "T00:00:00Z"

\* the value a caller stores in a field
ListSample(f) ==
    CASE f = "Environment" -> "production"
      [] f = "ProjectID" -> "proj-1"
      [] f = "ProjectSlug" -> "my-project"
      [] f = "Status" -> "completed"
      [] f = "URL" -> "https://example.com"
      [] f = "Limit" -> 10
      [] f = "Offset" -> 20
      [] f = "Cursor" -> "abc"
      [] f = "IsActive" -> FALSE
      [] f = "From" -> "user@example.com"
      [] f = "To" -> "to"
      [] f = "Subject" -> "hello"
      [] f = "Tag" -> "news"
      [] f = "StartDate" -> <<2024, 1, 1>>
      [] f = "EndDate" -> <<2024, 1, 31>>
      [] f = "SortBy" -> "createdAt"
      [] f = "SortOrder" -> "desc"

\* the conversion of a field's value to the string that is set
ParamValue(f, v) ==
    CASE f \in {"Limit", "Offset"} -> Itoa(v)
      [] f = "IsActive" -> FormatBool(v)
      [] f \in {"StartDate", "EndDate"} -> FormatTime(v)
      [] OTHER -> v

\* a request of the method with the fields S set
ListRequestWith(m, S) ==
    [f \in ListFieldNames(m) |-> IF f \in S THEN <<ListSample(f)>> ELSE <<>>]

\* the requests a caller passes: nil, no field set, a few fields set, every
\* field set, and the cursor set to the empty string
ListRequests(m) ==
    {<<>>}
    \cup {<<ListRequestWith(m, S)>> :
            S \in {T \in SUBSET ListFieldNames(m) :
                     Cardinality(T) <= MaxSetOptions \/ T = ListFieldNames(m)}}
    \cup (IF "Cursor" \in ListFieldNames(m)
          THEN {<<[ListRequestWith(m, {}) EXCEPT !["Cursor"] = <<"">>]>>}
          ELSE {})

\* variant: a field that is not set is sent with an empty value
ListParams_SetsUnset(m, req) ==
    IF req = <<>> THEN {}
    ELSE {<<ListFields(m)[i][2],
            IF req[1][ListFields(m)[i][1]] # <<>>
            THEN ParamValue(ListFields(m)[i][1], req[1][ListFields(m)[i][1]][1])
            ELSE "">> : i \in 1..Len(ListFields(m))}
         \cup (IF m \in TypedMethods THEN {<<"type", ListType(m)>>} ELSE {})

\* the parameters a list method sets: inside `if req != nil`, one per field
\* that is not nil, and the type of ListBatchJobs and ListSchedules
ListParams(m, req) ==
    IF req = <<>> THEN {}
    ELSE {<<ListFields(m)[i][2],
            ParamValue(ListFields(m)[i][1], req[1][ListFields(m)[i][1]][1])>> :
            i \in {j \in 1..Len(ListFields(m)) : req[1][ListFields(m)[j][1]] # <<>>}}
         \cup (IF m \in TypedMethods THEN {<<"type", ListType(m)>>} ELSE {})

\* the path a list method hands to http.Get
ListPath(m, req, iter) ==
    LET params == ListParams(m, req)
    IN IF Cardinality(params) > 0
       THEN <<ListBasePath(m), "?">> \o Encode(params, iter)
       ELSE <<ListBasePath(m)>>

InitList ==
    /\ call = [c \in Calls |-> IdleCall]
    /\ now = 0
    /\ client = New("test-api-key", ServerURL)
    /\ \E m \in ListMethods : args \in {<<m, req>> : req \in ListRequests(m)}
    /\ out = <<>>

\* one call of the list method args[1] with the request args[2]
CallList ==
    /\ out = <<>>
    /\ \E iter \in IterOrders(ListParams(args[1], args[2])) :
          out' = <<ListPath(args[1], args[2], iter)>>
    /\ UNCHANGED <<call, now, args, client>>

NextList == CallList

SpecList == InitList /\ [][NextList]_vars

ListCalled == out # <<>>

\* the keys of the query of a path
PathKeys(path) == {QueryKeysOf(path)[i] : i \in 1..Len(QueryKeysOf(path))}

\* the values of the query of a path
PathValues(path) ==
    LET qi == IndexOf(path, "?")
        q == IF qi = 0 THEN <<>> ELSE SubSeq(path, qi + 1, Len(path))
    IN {q[4 * i - 1] : i \in 1..((Len(q) + 1) \div 4)}

FieldIsSet(req, f) == req # <<>> /\ req[1][f] # <<>>

\* C23: the parameter of an optional filter field is in the path exactly when
\* the caller set the field, and a request with no field set (or a nil
\* request) gives a path with no parameter of any of the fields and no
\* parameter with an empty value
C23_ParameterIffFieldSet ==
    ListCalled =>
        /\ \A i \in 1..Len(ListFields(args[1])) :
              (ListFields(args[1])[i][2] \in PathKeys(out[1]))
                  <=> FieldIsSet(args[2], ListFields(args[1])[i][1])
        /\ (\A f \in ListFieldNames(args[1]) : ~FieldIsSet(args[2], f)) =>
              /\ PathKeys(out[1]) \cap ListKeys(args[1]) = {}
              /\ "" \notin PathValues(out[1])
              /\ "null" \notin PathValues(out[1])

C23_Witness ==
    /\ ListCalled
    /\ args[1] = "mail.List"
    /\ args[2] = <<ListRequestWith("mail.List", {})>>
    /\ out[1] = <<"/mail">>

\* C24: ListBatchJobs and ListSchedules send type=screenshot (type=extraction)
\* for every request, a nil request included
C24_TypeAlwaysSent ==
    (ListCalled /\ args[1] \in TypedMethods) =>
        \E i \in 1..(Len(out[1]) - 2) :
            /\ out[1][i] = "type"
            /\ out[1][i + 1] = "="
            /\ out[1][i + 2] = ListType(args[1])

----------------------------------------------------------------------------
(* The timeout is cooperative *)

\* the wait of c that ended last began before the timeout and ended at or
\* after it
TimeoutDuringWait(c) ==
    /\ call[c].getCalls > 0
    /\ call[c].deadline - call[c].pollInterval - call[c].startTime < call[c].timeout
    /\ call[c].deadline - call[c].startTime >= call[c].timeout

\* C25: the timeout is tested once per iteration, before the get call: a get
\* call is only issued from the loop test with the elapsed time below the
\* timeout, a get call that returns never yields the timeout error, and when
\* the timeout has elapsed at the end of a wait the helper returns the
\* timeout error at that instant with no further get call.
C25_TimeoutTestedBeforeGet ==
    [][\A c \in Calls :
          /\ (call[c].pc # "get" /\ call'[c].pc = "get") =>
                /\ call[c].pc = "loop"
                /\ LoopCond(now - call[c].startTime, call[c].timeout)
          /\ (call[c].pc = "get" /\ call'[c].pc # "get") =>
                /\ call'[c].pc \in {"wait", "done"}
                /\ call'[c].err.kind # "TimeoutError"
          /\ (call[c].pc = "wait" /\ call'[c].pc = "loop") =>
                /\ now = call[c].deadline
                /\ call'[c].getCalls = call[c].getCalls
          /\ (call[c].pc = "loop" /\ now - call[c].startTime >= call[c].timeout) =>
                /\ call'[c].pc = "done"
                /\ call'[c].err = NewTimeoutError(TimeoutMessage(call[c].helper))
                /\ call'[c].result = <<>>
                /\ call'[c].getCalls = call[c].getCalls
                /\ call'[c].returnedAt = call[c].deadline
                /\ now' = now]_vars

C25_Witness ==
    \E c \in Calls :
        /\ Returned(c) /\ call[c].err.kind = "TimeoutError"
        /\ TimeoutDuringWait(c)
        /\ Elapsed(c) > call[c].timeout
        /\ call[c].returnedAt = call[c].deadline
        /\ call[c].getCalls = 2

----------------------------------------------------------------------------
(* The get calls of a helper whose start request carries a scoping *)

\* the caller invokes a helper with a start request that may carry an
\* environment and a project
InvokeScoped(c) ==
    /\ call[c].pc = "idle"
    /\ \E h \in Helpers, opts \in ConcOpts, scope \in ScopeChoices :
          LET o == ResolveOptions(h, opts)
          IN call' = [call EXCEPT ![c] =
                 [@ EXCEPT !.pc = "start", !.helper = h,
                           !.pollInterval = o.pollInterval, !.timeout = o.timeout,
                           !.startCalls = @ + 1, !.startReq = scope,
                           !.req = BuildRequest(client, "POST", StartPath(h), "json").req]]
    /\ UNCHANGED <<now, args, out, client>>

StepScoped(c) ==
    \/ InvokeScoped(c)
    \/ StartReturn(c)
    \/ LoopTest(c)
    \/ GetReturn(c)
    \/ SelectCtxDone(c)
    \/ SelectTimer(c)
    \/ Cancel(c)

NextScoped == (\E c \in Solo : StepScoped(c)) \/ Tick

SpecScoped == Init /\ [][NextScoped]_vars

\* the path of a request: what follows the base URL
PathOf(req) == req.url[2]

\* the value of parameter k in the query of a path, <<>> when it is absent
QueryValue(path, k) ==
    LET qi == IndexOf(path, "?")
        q == IF qi = 0 THEN <<>> ELSE SubSeq(path, qi + 1, Len(path))
        at == {i \in 1..((Len(q) + 1) \div 4) : q[4 * i - 3] = k}
    IN IF at = {} THEN <<>> ELSE <<q[4 * (CHOOSE i \in at : TRUE) - 1]>>

\* the request issued last by c is a get call
GetIssued(c) == call[c].getCalls > 0 /\ call[c].req # <<>> /\ call[c].req[1].method = "GET"

\* C26: every get call of a helper carries the identifier of that call's
\* own start response and the environment and project of the start request,
\* and these are the same for all polls of the call.
C26_GetCarriesOwnIDAndScoping ==
    /\ [](\A c \in Calls :
            /\ call[c].getCalls > 0 => GetIssued(c)
            /\ GetIssued(c) =>
                  /\ call[c].startErr = NoErr
                  /\ call[c].reqID = call[c].respID
                  /\ PathOf(call[c].req[1])[2] = call[c].respID
                  /\ QueryValue(PathOf(call[c].req[1]), "environment") = call[c].startReq.Environment
                  /\ QueryValue(PathOf(call[c].req[1]), "projectId") = call[c].startReq.ProjectID)
    /\ [][\A c \in Calls :
            /\ call[c].pc \notin {"idle", "start"} =>
                  /\ call'[c].respID = call[c].respID
                  /\ call'[c].startReq = call[c].startReq
            /\ GetIssued(c) => call'[c].req = call[c].req]_vars

C26_Witness ==
    \E c \in Calls :
        /\ call[c].pc = "get" /\ call[c].getCalls = 2
        /\ call[c].startReq = [Environment |-> <<"production">>, ProjectID |-> <<"proj-1">>]
        /\ PathOf(call[c].req[1]) =
              <<"/webdata/screenshots/", "ss-123", "?", "environment", "=", "production",
                "&", "projectId", "=", "proj-1">>

----------------------------------------------------------------------------
(* A terminal status and a cancellation *)

\* C27: a terminal status wins over a cancellation: when a get call returns
\* a terminal status although the context was cancelled while it was in
\* flight, the helper returns the outcome of the status (the record, or the
\* domain failure of a single-item helper) and not the cancellation error.
C27_TerminalStatusWins ==
    \A c \in Calls :
        (TerminalSeen(c) /\ call[c].ctxErr # NoErr) =>
            /\ Returned(c)
            /\ call[c].cancelledIn = "get"
            /\ ReturnsRecord(c) \/ ReturnsDomainFailure(c)
            /\ ~ReturnsCancellation(c)
            /\ call[c].err.kind \notin {"context", "wrapError"}

C27_Witness ==
    \E c \in Calls :
        /\ Returned(c) /\ call[c].helper = "ExtractionBatchAndWait"
        /\ call[c].ctxErr = ContextCanceled /\ call[c].cancelledIn = "get"
        /\ LastStatusIs(c, StatusCancelled)
        /\ call[c].result = call[c].lastRec /\ call[c].err = NoErr

----------------------------------------------------------------------------
(* Statuses outside the terminal set *)

\* the status field of a decoded record: a status the SDK names, the empty
\* string of a record without status, or a string the SDK does not know
StatusChoices ==
    {StatusPending, StatusProcessing, StatusCompleted, StatusFailed, StatusCancelled,
     "", "archived"}

\* what the server answers: the job's record with any status, or an error
StatusRoundTrips(id) ==
    {Response(200, ObjectBody(MkRec(id, st, <<>>))) : st \in StatusChoices}
        \cup {Response(500, InvalidBody("Internal Server Error"))}

StatusOutcomes(id, doneAtIssue, doneNow) ==
    IF doneAtIssue THEN {DoFailed(URLErrorCanceled)}
    ELSE IF doneNow THEN StatusRoundTrips(id) \cup {DoFailed(URLErrorCanceled)}
    ELSE StatusRoundTrips(id)

InvokeStatus(c) ==
    /\ call[c].pc = "idle"
    /\ \E h \in Helpers, opts \in ConcOpts :
          LET o == ResolveOptions(h, opts)
          IN call' = [call EXCEPT ![c] =
                 [@ EXCEPT !.pc = "start", !.helper = h,
                           !.pollInterval = o.pollInterval, !.timeout = o.timeout,
                           !.startCalls = @ + 1,
                           !.req = BuildRequest(client, "POST", StartPath(h), "json").req]]
    /\ UNCHANGED <<now, args, out, client>>

StartReturnStatus(c) ==
    /\ call[c].pc = "start"
    /\ \E id \in NewJobIDs(c) :
       \E rt \in StatusOutcomes(id, call[c].issuedDone, call[c].ctxErr # NoErr) :
          LET r == ClientCall(rt)
              cr == [call[c] EXCEPT !.startErr = r.err,
                                    !.respID = IF r.err = NoErr THEN r.rec[1].ID ELSE "",
                                    !.startTime = now]
          IN call' = [call EXCEPT ![c] = Apply(cr, HandleStart(r), now)]
    /\ UNCHANGED <<now, args, out, client>>

GetReturnStatus(c) ==
    /\ call[c].pc = "get"
    /\ \E rt \in StatusOutcomes(call[c].reqID, call[c].issuedDone, call[c].ctxErr # NoErr) :
          LET r == ClientCall(rt)
              cr == [call[c] EXCEPT !.getErr = r.err, !.lastRec = r.rec]
          IN call' = [call EXCEPT ![c] = Apply(cr, HandleGet(cr.helper, r), now)]
    /\ UNCHANGED <<now, args, out, client>>

StepStatus(c) ==
    \/ InvokeStatus(c)
    \/ StartReturnStatus(c)
    \/ LoopTest(c)
    \/ GetReturnStatus(c)
    \/ SelectCtxDone(c)
    \/ SelectTimer(c)
    \/ Cancel(c)

NextStatus == (\E c \in Solo : StepStatus(c)) \/ Tick

SpecStatus == Init /\ [][NextStatus]_vars

\* the statuses that end helper h
TerminalSet(h) ==
    IF h \in SingleHelpers THEN {StatusCompleted, StatusFailed}
    ELSE {StatusCompleted, StatusFailed, StatusCancelled}

\* the last get call of c returned a record whose status does not end it
NonTerminalSeen(c) ==
    call[c].lastRec # <<>> /\ call[c].lastRec[1].Status \notin TerminalSet(call[c].helper)

\* C28: a status outside the helper's terminal set (for a single-item helper
\* also cancelled, for all helpers the empty and an unknown status) never
\* ends the helper: after such a record the helper goes on polling, and a
\* call that returns without having seen a terminal status returns the
\* timeout error, the cancellation error or the error of a get call.
C28_OtherStatusKeepsPolling ==
    /\ [](\A c \in Calls :
            /\ NonTerminalSeen(c) =>
                  /\ call[c].pc \in {"wait", "loop", "get", "done"}
                  /\ Returned(c) => ReturnsTimeout(c) \/ ReturnsCancellation(c)
            /\ (Returned(c) /\ call[c].startErr = NoErr /\ ~TerminalSeen(c)) =>
                  /\ call[c].result = <<>>
                  /\ \/ ReturnsTimeout(c)
                     \/ ReturnsCancellation(c)
                     \/ call[c].getErr # NoErr /\ call[c].err = call[c].getErr)
    /\ [][\A c \in Calls :
            (call[c].pc = "get" /\ call'[c].pc # "get" /\ NonTerminalSeen(c)') =>
                /\ call'[c].pc = "wait"
                /\ call'[c].deadline = now + call[c].pollInterval]_vars

C28_Witness ==
    \E c \in Calls :
        /\ Returned(c) /\ call[c].helper = "CaptureAndWait"
        /\ LastStatusIs(c, StatusCancelled)
        /\ call[c].getCalls = 2
        /\ ReturnsTimeout(c)

----------------------------------------------------------------------------
(* Termination *)

\* every start or get call in flight returns and time advances, with a
\* server that may report any status
FairSpecStatus == SpecStatus /\ WF_vars(NextStatus)

\* C29: every call of a wait helper terminates: when each start and get
\* call returns and time advances, a call that was invoked eventually
\* returns, whatever statuses the server reports and whether or not the
\* context is cancelled.
C29_EveryCallReturns ==
    \A c \in Calls : (call[c].pc # "idle") ~> Returned(c)

C29_Witness ==
    \E c \in Calls :
        /\ Returned(c) /\ call[c].helper = "ExtractionBatchAndWait"
        /\ call[c].ctxErr = NoErr
        /\ LastStatusIs(c, "archived")
        /\ ReturnsTimeout(c)
        /\ call[c].getCalls = 2

----------------------------------------------------------------------------
(* getNearestWidth applied to two widths and to its own result *)

\* the second width of a pair: the next integer and a few fixed widths
SecondWidths(w1) == {w2 \in {w1 + 1, 0, 1000, 4000, MaxInt} : w1 <= w2 /\ w2 <= MaxInt}

InitWidthPair ==
    /\ call = [c \in Calls |-> IdleCall]
    /\ now = 0
    /\ client = New("test-api-key", ServerURL)
    /\ \E w1 \in MinInt..MaxInt : args \in {<<w1, w2>> : w2 \in SecondWidths(w1)}
    /\ out = <<>>

\* the calls getNearestWidth(w1), getNearestWidth(w2) and
\* getNearestWidth(getNearestWidth(w1)), one after the other
CallGetNearestWidthNext ==
    /\ Len(out) < 3
    /\ out' = Append(out, getNearestWidth(IF Len(out) = 0 THEN args[1]
                                          ELSE IF Len(out) = 1 THEN args[2]
                                          ELSE out[1]))
    /\ UNCHANGED <<call, now, args, client>>

NextWidthPair == CallGetNearestWidthNext

SpecWidthPair == InitWidthPair /\ [][NextWidthPair]_vars

\* C30: getNearestWidth is idempotent and monotone: applying it to its own
\* result gives the result again, every member of the list maps to itself,
\* and of two widths the smaller never gets the larger result.
C30_IdempotentAndMonotone ==
    Len(out) = 3 =>
        /\ out[3] = out[1]
        /\ args[1] \in WidthSet => out[1] = args[1]
        /\ args[2] \in WidthSet => out[2] = args[2]
        /\ out[1] <= out[2]

====
